---- MODULE Spec2Model ----
(***************************************************************************)
(* PLP prediction market program (plp_program/programs/errors/src).        *)
(*                                                                         *)
(* One market, created by create_market, its SOL vault PDA, the global     *)
(* treasury and one position PDA per participant.  Every instruction of    *)
(* the program is one atomic transaction: a handler that returns an error  *)
(* leaves every account as it was, and the model records only the error    *)
(* in `result`.  All amounts are lamports, with the constants of           *)
(* constants.rs.  Products of two lamport amounts (u128 in the program)    *)
(* are computed by MulDiv, which never forms the product.                  *)
(***************************************************************************)
EXTENDS Integers, FiniteSets, Sequences, TLC

\* ---------------------------------------------------------------- bounds
MaxTrades == 2          \* successful buys per behaviour
MaxTime == 1            \* the clock stops here
MaxPoolBalance == 1600000000   \* Funding-phase buys stop filling the pool here
MaxCapOffset == 200     \* target pools of CapSpec: the minimum plus 0..MaxCapOffset
MaxVestTicks == 4       \* quarters of the vesting period the clock of VestSpec runs

\* ------------------------------------------------------------- constants
TRADE_FEE_BPS == 150
COMPLETION_FEE_BPS == 500
MIN_INVESTMENT_LAMPORTS == 10000000
BPS_DIVISOR == 10000
PLATFORM_TOKEN_SHARE_BPS == 200
TEAM_TOKEN_SHARE_BPS == 3300
MIN_POOL_LAMPORTS == 500000000
MIN_LIQUIDITY == 10000000
TEAM_IMMEDIATE_SHARE_BPS == 800
TEAM_VESTED_SHARE_BPS == 2500
FOUNDER_IMMEDIATE_SHARE_BPS == 800
VESTING_DURATION_SECONDS == 31104000
\* rent.minimum_balance(0) and rent.minimum_balance(Market::SPACE) under the
\* cluster's rent parameters: (128 + space) * 3480 * 2
VaultRentExempt == 890880
MarketRentExempt == 4231680

\* ------------------------------------------------------------ participants
Founder == "founder"
Traders == {"alice", "bob"}
Users == Traders \cup {Founder}

\* create_market arguments and buy amounts explored
TargetPools == {MIN_POOL_LAMPORTS}
ExpiryTimes == {1}
Amounts == {MIN_INVESTMENT_LAMPORTS - 1, MIN_INVESTMENT_LAMPORTS, 415823611,
            520000000}
\* token balances the market's token account can show after the external buy
TokenAmounts == {1000000}
\* init_team_vesting arguments, excess SOL allocations and clock steps of VestSpec
TeamWallets == {Founder, "alice"}
VestSupplies == {19, 100, 4000000}
VestExcess == {0, 10, 100}
VestStep == VESTING_DURATION_SECONDS \div 4

VARIABLES market, position, treasury, vault_lamports, market_lamports,
          market_tokens, received, now, trades, result, vesting

vars == <<market, position, treasury, vault_lamports, market_lamports,
          market_tokens, received, now, trades, result, vesting>>

\* ------------------------------------------------------- integer helpers
\* (x + y) mod c with its carry, for 0 <= x, y < c
AddMod(x, y, c) ==
    IF x >= c - y THEN <<1, x - (c - y)>> ELSE <<0, x + y>>

\* <<quotient, remainder>> of a * b by c, by binary long multiplication
RECURSIVE MulDivMod(_, _, _)
MulDivMod(a, b, c) ==
    IF b = 0 THEN <<0, 0>>
    ELSE LET h == MulDivMod(a, b \div 2, c)
             d == AddMod(h[2], h[2], c)
             e == IF b % 2 = 1 THEN AddMod(d[2], a % c, c) ELSE <<0, d[2]>>
             qa == IF b % 2 = 1 THEN a \div c ELSE 0
         IN  <<2 * h[1] + d[1] + qa + e[1], e[2]>>

\* floor(a * b / c), the program's (a as u128 * b as u128) / c as u128
MulDiv(a, b, c) == MulDivMod(a, b, c)[1]

\* a quote without the minimum-liquidity guard
calculate_shares_no_liquidity_guard(yes_pool, no_pool, sol_lamports, buy_yes) ==
    IF yes_pool = 0 \/ no_pool = 0 THEN [err |-> "MathError", shares |-> 0]
    ELSE IF sol_lamports = 0 THEN [err |-> "Ok", shares |-> 0]
    ELSE IF buy_yes
    THEN [err |-> "Ok",
          shares |-> yes_pool
                       - MulDiv(yes_pool, no_pool, no_pool + sol_lamports)]
    ELSE [err |-> "Ok",
          shares |-> no_pool
                       - MulDiv(yes_pool, no_pool, yes_pool + sol_lamports)]

\* -------------------------------------------------------------- utils/amm
\* a quote that rounds the shrinking pool up instead of down
calculate_shares_pool_rounded_up(yes_pool, no_pool, sol_lamports, buy_yes) ==
    IF yes_pool = 0 \/ no_pool = 0 THEN [err |-> "MathError", shares |-> 0]
    ELSE IF sol_lamports = 0 THEN [err |-> "Ok", shares |-> 0]
    ELSE IF buy_yes
    THEN LET no_pool_new == no_pool + sol_lamports
             yes_pool_new == MulDiv(yes_pool, no_pool, no_pool_new) + 1
         IN  IF yes_pool_new < MIN_LIQUIDITY
             THEN [err |-> "InsufficientBalance", shares |-> 0]
             ELSE [err |-> "Ok", shares |-> yes_pool - yes_pool_new]
    ELSE LET yes_pool_new == yes_pool + sol_lamports
             no_pool_new == MulDiv(yes_pool, no_pool, yes_pool_new) + 1
         IN  IF no_pool_new < MIN_LIQUIDITY
             THEN [err |-> "InsufficientBalance", shares |-> 0]
             ELSE [err |-> "Ok", shares |-> no_pool - no_pool_new]

\* calculate_shares_from_sol: [err, shares]
calculate_shares_from_sol(yes_pool, no_pool, sol_lamports, buy_yes) ==
    IF yes_pool = 0 \/ no_pool = 0 THEN [err |-> "MathError", shares |-> 0]
    ELSE IF sol_lamports = 0 THEN [err |-> "Ok", shares |-> 0]
    ELSE IF buy_yes
    THEN LET no_pool_new == no_pool + sol_lamports
             yes_pool_new == MulDiv(yes_pool, no_pool, no_pool_new)
         IN  IF yes_pool_new < MIN_LIQUIDITY
             THEN [err |-> "InsufficientBalance", shares |-> 0]
             ELSE [err |-> "Ok", shares |-> yes_pool - yes_pool_new]
    ELSE LET yes_pool_new == yes_pool + sol_lamports
             no_pool_new == MulDiv(yes_pool, no_pool, yes_pool_new)
         IN  IF no_pool_new < MIN_LIQUIDITY
             THEN [err |-> "InsufficientBalance", shares |-> 0]
             ELSE [err |-> "Ok", shares |-> no_pool - no_pool_new]

\* a YES price read off the wrong reserve
get_yes_price_of_yes_pool(yes_pool, no_pool) ==
    IF yes_pool = 0 /\ no_pool = 0 THEN [err |-> "MathError", price |-> 0]
    ELSE [err |-> "Ok", price |-> MulDiv(yes_pool, 1000000000, yes_pool + no_pool)]

\* get_yes_price: NO_pool / (YES_pool + NO_pool), scaled by 10^9
get_yes_price(yes_pool, no_pool) ==
    IF yes_pool = 0 /\ no_pool = 0 THEN [err |-> "MathError", price |-> 0]
    ELSE [err |-> "Ok",
          price |-> MulDiv(no_pool, 1000000000, yes_pool + no_pool)]

\* get_no_price: YES_pool / (YES_pool + NO_pool), scaled by 10^9
get_no_price(yes_pool, no_pool) ==
    IF yes_pool = 0 /\ no_pool = 0 THEN [err |-> "MathError", price |-> 0]
    ELSE [err |-> "Ok",
          price |-> MulDiv(yes_pool, 1000000000, yes_pool + no_pool)]

\* ------------------------------------------------------------------ state
EmptyPosition ==
    [exists |-> FALSE, yes_shares |-> 0, no_shares |-> 0,
     total_invested |-> 0, claimed |-> FALSE]

\* create_market handler: the market record after construction
NewMarket(target_pool, expiry_time) ==
    [founder |-> Founder,
     target_pool |-> target_pool,
     pool_balance |-> 0,
     distribution_pool |-> 0,
     yes_pool |-> target_pool,
     no_pool |-> target_pool,
     total_yes_shares |-> 0,
     total_no_shares |-> 0,
     expiry_time |-> expiry_time,
     phase |-> "Prediction",
     resolution |-> "Unresolved",
     token_mint |-> "None",
     platform_tokens_allocated |-> 0,
     yes_voter_tokens_allocated |-> 0,
     founder_excess_sol_allocated |-> 0,
     founder_vesting_initialized |-> FALSE]

NoResult == [op |-> "create_market", who |-> Founder, err |-> "Ok"]

\* the team and founder vesting PDAs of the market, before they are created
EmptyVesting ==
    [exists |-> FALSE, wallet |-> Founder, total |-> 0, immediate |-> 0,
     vesting |-> 0, claimed |-> 0, immediate_claimed |-> FALSE,
     vesting_start |-> 0, vesting_duration |-> 0]

NoVesting == [team |-> EmptyVesting, founder |-> EmptyVesting]

Init ==
    /\ \E tp \in TargetPools, et \in ExpiryTimes : market = NewMarket(tp, et)
    /\ position = [u \in Users |-> EmptyPosition]
    /\ treasury = [total_fees |-> 0]
    /\ vault_lamports = VaultRentExempt
    /\ market_lamports = MarketRentExempt
    /\ market_tokens = 0
    /\ received = [u \in Users |-> [sol |-> 0, tokens |-> 0]]
    /\ now = 0
    /\ trades = 0
    /\ result = NoResult
    /\ vesting = NoVesting

\* a rejection that keeps the fee credited before the error
RejectKeepsFee(op, who, err) ==
    /\ result' = [op |-> op, who |-> who, err |-> err]
    /\ treasury' = [treasury EXCEPT
           !.total_fees = @ + MulDiv(MIN_INVESTMENT_LAMPORTS, TRADE_FEE_BPS,
                                     BPS_DIVISOR)]
    /\ UNCHANGED <<vesting, market, position, vault_lamports, market_lamports,
                   market_tokens, received, now, trades>>

\* a rejected transaction: nothing but the reported error changes
Reject(op, who, err) ==
    /\ result' = [op |-> op, who |-> who, err |-> err]
    /\ UNCHANGED <<vesting, market, position, treasury, vault_lamports, market_lamports,
                   market_tokens, received, now, trades>>

\* a buy quote that keeps twice the trade fee out of the pool
BuyQuoteDoubleFee(m, sol_amount) ==
    LET fee0 == MulDiv(sol_amount, 2 * TRADE_FEE_BPS, BPS_DIVISOR)
        net0 == sol_amount - fee0
        remaining_capacity == m.target_pool - m.pool_balance
    IN  IF m.phase = "Prediction" /\ remaining_capacity < 0
        THEN [err |-> "MathError", actual |-> 0, fee |-> 0, net |-> 0]
        ELSE IF m.phase = "Prediction" /\ net0 > remaining_capacity
        THEN LET actual == MulDiv(remaining_capacity, BPS_DIVISOR,
                                  BPS_DIVISOR - TRADE_FEE_BPS)
             IN  [err |-> "Ok", actual |-> actual,
                  fee |-> actual - remaining_capacity,
                  net |-> remaining_capacity]
        ELSE [err |-> "Ok", actual |-> sol_amount, fee |-> fee0, net |-> net0]

\* a buy quote without the Prediction-phase cap
BuyQuoteNoCap(m, sol_amount) ==
    LET fee0 == MulDiv(sol_amount, TRADE_FEE_BPS, BPS_DIVISOR)
    IN  [err |-> "Ok", actual |-> sol_amount, fee |-> fee0,
         net |-> sol_amount - fee0]

\* a capped quote whose charged amount is rounded up
BuyQuoteRoundUp(m, sol_amount) ==
    LET fee0 == MulDiv(sol_amount, TRADE_FEE_BPS, BPS_DIVISOR)
        net0 == sol_amount - fee0
        remaining_capacity == m.target_pool - m.pool_balance
    IN  IF m.phase = "Prediction" /\ remaining_capacity < 0
        THEN [err |-> "MathError", actual |-> 0, fee |-> 0, net |-> 0]
        ELSE IF m.phase = "Prediction" /\ net0 > remaining_capacity
        THEN LET actual == MulDiv(remaining_capacity, BPS_DIVISOR,
                                  BPS_DIVISOR - TRADE_FEE_BPS) + 1
             IN  [err |-> "Ok", actual |-> actual,
                  fee |-> actual - remaining_capacity,
                  net |-> remaining_capacity]
        ELSE [err |-> "Ok", actual |-> sol_amount, fee |-> fee0, net |-> net0]

\* a quote that deposits the gross amount: the fee is not skimmed first
BuyQuoteGross(m, sol_amount) ==
    LET fee0 == MulDiv(sol_amount, TRADE_FEE_BPS, BPS_DIVISOR)
    IN  [err |-> "Ok", actual |-> sol_amount, fee |-> fee0, net |-> sol_amount]

\* ------------------------------------------------------ buy_yes / buy_no
\* fee, net amount and charged amount of a buy, with the Prediction-phase cap
BuyQuote(m, sol_amount) ==
    LET fee0 == MulDiv(sol_amount, TRADE_FEE_BPS, BPS_DIVISOR)
        net0 == sol_amount - fee0
        remaining_capacity == m.target_pool - m.pool_balance
    IN  IF m.phase = "Prediction" /\ remaining_capacity < 0
        THEN [err |-> "MathError", actual |-> 0, fee |-> 0, net |-> 0]
        ELSE IF m.phase = "Prediction" /\ net0 > remaining_capacity
        THEN LET actual == MulDiv(remaining_capacity, BPS_DIVISOR,
                                  BPS_DIVISOR - TRADE_FEE_BPS)
             IN  [err |-> "Ok", actual |-> actual,
                  fee |-> actual - remaining_capacity,
                  net |-> remaining_capacity]
        ELSE [err |-> "Ok", actual |-> sol_amount, fee |-> fee0, net |-> net0]

\* a buy handler without the one-position rule
BuyErrorNoOnePosition(m, pos, t, side, sol_amount) ==
    IF m.resolution # "Unresolved" THEN "AlreadyResolved"
    ELSE IF ~(t < m.expiry_time) THEN "MarketExpired"
    ELSE IF sol_amount < MIN_INVESTMENT_LAMPORTS THEN "InvestmentTooSmall"
    ELSE LET q == BuyQuote(m, sol_amount)
         IN  IF q.err # "Ok" THEN q.err
             ELSE LET s == calculate_shares_from_sol(m.yes_pool, m.no_pool,
                                                     q.net, side = "yes")
                  IN  IF s.err # "Ok" THEN s.err
                      ELSE IF ~(s.shares > 0) THEN "MathError"
                      ELSE "Ok"

\* a buy handler without the expiry check
BuyErrorNoExpiry(m, pos, t, side, sol_amount) ==
    IF m.resolution # "Unresolved" THEN "AlreadyResolved"
    ELSE IF sol_amount < MIN_INVESTMENT_LAMPORTS THEN "InvestmentTooSmall"
    ELSE LET q == BuyQuote(m, sol_amount)
             opposite == IF side = "yes" THEN pos.no_shares ELSE pos.yes_shares
         IN  IF q.err # "Ok" THEN q.err
             ELSE IF opposite # 0 THEN "AlreadyHasPosition"
             ELSE LET s == calculate_shares_from_sol(m.yes_pool, m.no_pool,
                                                     q.net, side = "yes")
                  IN  IF s.err # "Ok" THEN s.err
                      ELSE IF ~(s.shares > 0) THEN "MathError"
                      ELSE "Ok"

\* a buy handler without the minimum-investment check
BuyErrorNoMinimum(m, pos, t, side, sol_amount) ==
    IF m.resolution # "Unresolved" THEN "AlreadyResolved"
    ELSE IF ~(t < m.expiry_time) THEN "MarketExpired"
    ELSE LET q == BuyQuote(m, sol_amount)
             opposite == IF side = "yes" THEN pos.no_shares ELSE pos.yes_shares
         IN  IF q.err # "Ok" THEN q.err
             ELSE IF opposite # 0 THEN "AlreadyHasPosition"
             ELSE LET s == calculate_shares_from_sol(m.yes_pool, m.no_pool,
                                                     q.net, side = "yes")
                  IN  IF s.err # "Ok" THEN s.err
                      ELSE IF ~(s.shares > 0) THEN "MathError"
                      ELSE "Ok"

\* the handler's checks in program order: the error it returns, or "Ok"
BuyError(m, pos, t, side, sol_amount) ==
    IF m.resolution # "Unresolved" THEN "AlreadyResolved"
    ELSE IF ~(t < m.expiry_time) THEN "MarketExpired"
    ELSE IF sol_amount < MIN_INVESTMENT_LAMPORTS THEN "InvestmentTooSmall"
    ELSE LET q == BuyQuote(m, sol_amount)
             opposite == IF side = "yes" THEN pos.no_shares ELSE pos.yes_shares
         IN  IF q.err # "Ok" THEN q.err
             ELSE IF opposite # 0 THEN "AlreadyHasPosition"
             ELSE LET s == calculate_shares_from_sol(m.yes_pool, m.no_pool,
                                                     q.net, side = "yes")
                  IN  IF s.err # "Ok" THEN s.err
                      ELSE IF ~(s.shares > 0) THEN "MathError"
                      ELSE "Ok"

\* model bound: a buy that passes the entry checks is explored only while the
\* pool it would fill stays within MaxPoolBalance
BuyInBounds(m, t, sol_amount) ==
    (m.resolution = "Unresolved" /\ t < m.expiry_time
        /\ sol_amount >= MIN_INVESTMENT_LAMPORTS)
    => m.pool_balance + sol_amount <= MaxPoolBalance

\* a buy_yes that books the amount charged, fee included, as pool_balance
BuyYesGrossPool(u, sol_amount) ==
    LET err == BuyError(market, position[u], now, "yes", sol_amount)
        q == BuyQuote(market, sol_amount)
        shares == calculate_shares_from_sol(market.yes_pool, market.no_pool,
                                            q.net, TRUE).shares
    IN  /\ BuyInBounds(market, now, sol_amount)
        /\ IF err # "Ok" THEN Reject("buy_yes", u, err)
           ELSE
             /\ trades < MaxTrades
             /\ treasury' = [treasury EXCEPT !.total_fees = @ + q.fee]
             /\ vault_lamports' = vault_lamports + q.net
             /\ market' = [market EXCEPT
                    !.pool_balance = @ + q.actual,
                    !.yes_pool = @ - shares,
                    !.no_pool = @ + q.net,
                    !.total_yes_shares = @ + shares]
             /\ position' = [position EXCEPT ![u] =
                    [exists |-> TRUE,
                     yes_shares |-> @.yes_shares + shares,
                     no_shares |-> @.no_shares,
                     total_invested |-> @.total_invested + q.actual,
                     claimed |-> @.claimed]]
             /\ trades' = trades + 1
             /\ result' = [op |-> "buy_yes", who |-> u, err |-> "Ok"]
             /\ UNCHANGED <<vesting, market_lamports, market_tokens, received, now>>

BuyYes(u, sol_amount) ==
    LET err == BuyError(market, position[u], now, "yes", sol_amount)
        q == BuyQuote(market, sol_amount)
        shares == calculate_shares_from_sol(market.yes_pool, market.no_pool,
                                            q.net, TRUE).shares
    IN  /\ BuyInBounds(market, now, sol_amount)
        /\ IF err # "Ok" THEN Reject("buy_yes", u, err)
           ELSE
             /\ trades < MaxTrades
             /\ treasury' = [treasury EXCEPT !.total_fees = @ + q.fee]
             /\ vault_lamports' = vault_lamports + q.net
             /\ market' = [market EXCEPT
                    !.pool_balance = @ + q.net,
                    !.yes_pool = @ - shares,
                    !.no_pool = @ + q.net,
                    !.total_yes_shares = @ + shares]
             /\ position' = [position EXCEPT ![u] =
                    [exists |-> TRUE,
                     yes_shares |-> @.yes_shares + shares,
                     no_shares |-> @.no_shares,
                     total_invested |-> @.total_invested + q.actual,
                     claimed |-> @.claimed]]
             /\ trades' = trades + 1
             /\ result' = [op |-> "buy_yes", who |-> u, err |-> "Ok"]
             /\ UNCHANGED <<vesting, market_lamports, market_tokens, received, now>>

\* a buy_no that books the requested amount, not the charged one, as invested
BuyNoBooksRequested(u, sol_amount) ==
    LET err == BuyError(market, position[u], now, "no", sol_amount)
        q == BuyQuote(market, sol_amount)
        shares == calculate_shares_from_sol(market.yes_pool, market.no_pool,
                                            q.net, FALSE).shares
    IN  /\ BuyInBounds(market, now, sol_amount)
        /\ IF err # "Ok" THEN Reject("buy_no", u, err)
           ELSE
             /\ trades < MaxTrades
             /\ treasury' = [treasury EXCEPT !.total_fees = @ + q.fee]
             /\ market_lamports' = market_lamports + q.net
             /\ market' = [market EXCEPT
                    !.pool_balance = @ + q.net,
                    !.no_pool = @ - shares,
                    !.yes_pool = @ + q.net,
                    !.total_no_shares = @ + shares]
             /\ position' = [position EXCEPT ![u] =
                    [exists |-> TRUE,
                     yes_shares |-> @.yes_shares,
                     no_shares |-> @.no_shares + shares,
                     total_invested |-> @.total_invested + sol_amount,
                     claimed |-> @.claimed]]
             /\ trades' = trades + 1
             /\ result' = [op |-> "buy_no", who |-> u, err |-> "Ok"]
             /\ UNCHANGED <<vesting, vault_lamports, market_tokens, received, now>>

BuyNo(u, sol_amount) ==
    LET err == BuyError(market, position[u], now, "no", sol_amount)
        q == BuyQuote(market, sol_amount)
        shares == calculate_shares_from_sol(market.yes_pool, market.no_pool,
                                            q.net, FALSE).shares
    IN  /\ BuyInBounds(market, now, sol_amount)
        /\ IF err # "Ok" THEN Reject("buy_no", u, err)
           ELSE
             /\ trades < MaxTrades
             /\ treasury' = [treasury EXCEPT !.total_fees = @ + q.fee]
             /\ market_lamports' = market_lamports + q.net
             /\ market' = [market EXCEPT
                    !.pool_balance = @ + q.net,
                    !.no_pool = @ - shares,
                    !.yes_pool = @ + q.net,
                    !.total_no_shares = @ + shares]
             /\ position' = [position EXCEPT ![u] =
                    [exists |-> TRUE,
                     yes_shares |-> @.yes_shares,
                     no_shares |-> @.no_shares + shares,
                     total_invested |-> @.total_invested + q.actual,
                     claimed |-> @.claimed]]
             /\ trades' = trades + 1
             /\ result' = [op |-> "buy_no", who |-> u, err |-> "Ok"]
             /\ UNCHANGED <<vesting, vault_lamports, market_tokens, received, now>>

\* extend_market without the founder constraint
ExtendErrorAnyCaller(m, caller) ==
    IF m.phase # "Prediction" THEN "InvalidMarketPhase"
    ELSE IF m.resolution # "Unresolved" THEN "AlreadyResolved"
    ELSE IF ~(m.pool_balance >= m.target_pool) THEN "TargetNotReached"
    ELSE IF ~(m.total_yes_shares > m.total_no_shares) THEN "YesNotWinning"
    ELSE "Ok"

\* ---------------------------------------------------------- extend_market
\* the Accounts constraints, then the handler's checks, in program order
ExtendError(m, caller) ==
    IF m.founder # caller THEN "Unauthorized"
    ELSE IF m.phase # "Prediction" THEN "InvalidMarketPhase"
    ELSE IF m.resolution # "Unresolved" THEN "AlreadyResolved"
    ELSE IF ~(m.pool_balance >= m.target_pool) THEN "TargetNotReached"
    ELSE IF ~(m.total_yes_shares > m.total_no_shares) THEN "YesNotWinning"
    ELSE "Ok"

ExtendMarket(caller) ==
    LET err == ExtendError(market, caller)
    IN  IF err # "Ok" THEN Reject("extend_market", caller, err)
        ELSE /\ market' = [market EXCEPT !.phase = "Funding"]
             /\ result' = [op |-> "extend_market", who |-> caller,
                           err |-> "Ok"]
             /\ UNCHANGED <<vesting, position, treasury, vault_lamports, market_lamports,
                            market_tokens, received, now, trades>>

\* a permission test that keeps resolution after expiry for the founder
CanResolveFounderOnly(m, caller, t) ==
    LET is_expired == t >= m.expiry_time
        is_founder == caller = m.founder
        in_funding_phase == m.phase = "Funding"
        pool_is_full == m.pool_balance >= m.target_pool
        no_is_winning == m.total_no_shares > m.total_yes_shares
    IN  (is_founder /\ (is_expired \/ in_funding_phase))
           \/ (pool_is_full /\ no_is_winning)

\* --------------------------------------------------------- resolve_market
\* a permission test that lets anyone resolve as soon as the pool is full
CanResolvePoolFull(m, caller, t) ==
    \/ t >= m.expiry_time
    \/ (caller = m.founder /\ m.phase = "Funding")
    \/ m.pool_balance >= m.target_pool

\* 1) resolution permission
CanResolve(m, caller, t) ==
    LET is_expired == t >= m.expiry_time
        is_founder == caller = m.founder
        in_funding_phase == m.phase = "Funding"
        pool_is_full == m.pool_balance >= m.target_pool
        no_is_winning == m.total_no_shares > m.total_yes_shares
    IN  is_expired \/ (is_founder /\ in_funding_phase)
                   \/ (pool_is_full /\ no_is_winning)

\* an outcome rule that compares the share totals before the target
ResolutionOutcomeSharesFirst(m) ==
    IF m.total_yes_shares > m.total_no_shares THEN "YesWins"
    ELSE IF m.total_no_shares > m.total_yes_shares THEN "NoWins"
    ELSE "Refund"

\* 2) resolution outcome
ResolutionOutcome(m) ==
    IF m.pool_balance < m.target_pool THEN "Refund"
    ELSE IF m.total_yes_shares > m.total_no_shares THEN "YesWins"
    ELSE IF m.total_no_shares > m.total_yes_shares THEN "NoWins"
    ELSE "Refund"

\* 5% completion fee of the lamports it is taken from
CompletionFee(lamports) == MulDiv(lamports, COMPLETION_FEE_BPS, BPS_DIVISOR)

\* sol_after_fee.saturating_sub(MAX_POOL_FOR_TOKEN_LAUNCH): the 50 SOL cap is
\* above every vault balance MaxTrades buys of Amounts can build up
ExcessSol(sol_after_fee) == 0

\* resolve_market without the Unresolved constraint on the market account
ResolveErrorNoConstraint(m, caller, t) ==
    IF ~CanResolve(m, caller, t) THEN "CannotResolveYet" ELSE "Ok"

ResolveError(m, caller, t) ==
    IF m.resolution # "Unresolved" THEN "AlreadyResolved"
    ELSE IF ~CanResolve(m, caller, t) THEN "CannotResolveYet"
    ELSE "Ok"

\* a YesWins resolution whose platform share is rounded up
ResolveYesWinsRoundsUp(caller, tokens, full_fill) ==
    LET completion_fee == CompletionFee(vault_lamports)
        sol_after_fee == vault_lamports - completion_fee
        excess_sol == ExcessSol(sol_after_fee)
        total_reserved == VaultRentExempt + completion_fee + excess_sol
        net_amount_for_token == vault_lamports - total_reserved
        platform_tokens ==
            (tokens * PLATFORM_TOKEN_SHARE_BPS + BPS_DIVISOR - 1) \div BPS_DIVISOR
        team_tokens == MulDiv(tokens, TEAM_TOKEN_SHARE_BPS, BPS_DIVISOR)
        yes_voter_tokens == tokens - platform_tokens - team_tokens
        cost == IF full_fill THEN net_amount_for_token
                ELSE net_amount_for_token - net_amount_for_token \div 100
    IN  IF net_amount_for_token < 0
        THEN Reject("resolve_market", caller, "MathError")
        ELSE /\ market_tokens' = tokens
             /\ vault_lamports' = vault_lamports - cost - completion_fee - excess_sol
             /\ market_lamports' = market_lamports + excess_sol
             /\ treasury' = [treasury EXCEPT !.total_fees = @ + completion_fee]
             /\ market' = [market EXCEPT
                    !.token_mint = "Some",
                    !.pool_balance = VaultRentExempt,
                    !.platform_tokens_allocated = platform_tokens,
                    !.yes_voter_tokens_allocated = yes_voter_tokens,
                    !.founder_excess_sol_allocated =
                        IF excess_sol > 0 THEN excess_sol ELSE @,
                    !.resolution = "YesWins"]
             /\ result' = [op |-> "resolve_market", who |-> caller,
                           err |-> "Ok"]
             /\ UNCHANGED <<vesting, position, received, now, trades>>

\* YesWins branch; the external token purchase succeeds, leaves `tokens` in the
\* market's token account and costs the vault the whole max_sol_cost it was
\* given (full_fill) or, its price being better, 1% less
ResolveYesWins(caller, tokens, full_fill) ==
    LET completion_fee == CompletionFee(vault_lamports)
        sol_after_fee == vault_lamports - completion_fee
        excess_sol == ExcessSol(sol_after_fee)
        total_reserved == VaultRentExempt + completion_fee + excess_sol
        net_amount_for_token == vault_lamports - total_reserved
        platform_tokens == MulDiv(tokens, PLATFORM_TOKEN_SHARE_BPS, BPS_DIVISOR)
        team_tokens == MulDiv(tokens, TEAM_TOKEN_SHARE_BPS, BPS_DIVISOR)
        yes_voter_tokens == tokens - platform_tokens - team_tokens
        cost == IF full_fill THEN net_amount_for_token
                ELSE net_amount_for_token - net_amount_for_token \div 100
    IN  IF net_amount_for_token < 0
        THEN Reject("resolve_market", caller, "MathError")
        ELSE /\ market_tokens' = tokens
             /\ vault_lamports' = vault_lamports - cost - completion_fee - excess_sol
             /\ market_lamports' = market_lamports + excess_sol
             /\ treasury' = [treasury EXCEPT !.total_fees = @ + completion_fee]
             /\ market' = [market EXCEPT
                    !.token_mint = "Some",
                    !.pool_balance = VaultRentExempt,
                    !.platform_tokens_allocated = platform_tokens,
                    !.yes_voter_tokens_allocated = yes_voter_tokens,
                    !.founder_excess_sol_allocated =
                        IF excess_sol > 0 THEN excess_sol ELSE @,
                    !.resolution = "YesWins"]
             /\ result' = [op |-> "resolve_market", who |-> caller,
                           err |-> "Ok"]
             /\ UNCHANGED <<vesting, position, received, now, trades>>

\* a failed purchase that leaves the fee credited and the market resolved
ResolveYesWinsCpiFailsPartial(caller) ==
    /\ treasury' = [treasury EXCEPT
           !.total_fees = @ + CompletionFee(vault_lamports)]
    /\ market' = [market EXCEPT !.resolution = "YesWins"]
    /\ result' = [op |-> "resolve_market", who |-> caller,
                  err |-> "ExternalProgramError"]
    /\ UNCHANGED <<vesting, position, vault_lamports, market_lamports,
                   market_tokens, received, now, trades>>

\* the external token purchase fails: the transaction is rolled back
ResolveYesWinsCpiFails(caller) ==
    Reject("resolve_market", caller, "ExternalProgramError")

\* NoWins branch: fee and distribution pool taken from the vault's lamports
ResolveNoWins(caller) ==
    LET completion_fee == CompletionFee(vault_lamports)
        distribution_amount == vault_lamports - completion_fee
    IN  /\ treasury' = [treasury EXCEPT !.total_fees = @ + completion_fee]
        /\ vault_lamports' = vault_lamports - completion_fee - distribution_amount
        /\ market_lamports' = market_lamports + distribution_amount
        /\ market' = [market EXCEPT
               !.pool_balance = distribution_amount,
               !.distribution_pool = distribution_amount,
               !.resolution = "NoWins"]
        /\ result' = [op |-> "resolve_market", who |-> caller,
                      err |-> "Ok"]
        /\ UNCHANGED <<vesting, position, market_tokens, received, now, trades>>

\* a Refund branch that skims the completion fee like the other two
ResolveRefundSkimsFee(caller) ==
    LET completion_fee == CompletionFee(vault_lamports)
        refund_pool == vault_lamports - VaultRentExempt - completion_fee
    IN  IF refund_pool < 0
        THEN Reject("resolve_market", caller, "MathError")
        ELSE /\ vault_lamports' = vault_lamports - refund_pool - completion_fee
             /\ market_lamports' = market_lamports + refund_pool
             /\ treasury' = [treasury EXCEPT !.total_fees = @ + completion_fee]
             /\ market' = [market EXCEPT
                    !.pool_balance = IF refund_pool > 0 THEN refund_pool ELSE @,
                    !.resolution = "Refund"]
             /\ result' = [op |-> "resolve_market", who |-> caller,
                           err |-> "Ok"]
             /\ UNCHANGED <<vesting, position, market_tokens, received, now,
                            trades>>

\* Refund branch: no fee; the vault above its rent goes to the market account
ResolveRefund(caller) ==
    LET refund_pool == vault_lamports - VaultRentExempt
    IN  IF refund_pool < 0
        THEN Reject("resolve_market", caller, "MathError")
        ELSE /\ vault_lamports' = vault_lamports - refund_pool
             /\ market_lamports' = market_lamports + refund_pool
             /\ market' = [market EXCEPT
                    !.pool_balance = IF refund_pool > 0 THEN refund_pool ELSE @,
                    !.resolution = "Refund"]
             /\ result' = [op |-> "resolve_market", who |-> caller,
                           err |-> "Ok"]
             /\ UNCHANGED <<vesting, position, treasury, market_tokens, received, now,
                            trades>>

ResolveMarket(caller) ==
    LET err == ResolveError(market, caller, now)
        resolution == ResolutionOutcome(market)
    IN  IF err # "Ok" THEN Reject("resolve_market", caller, err)
        ELSE CASE resolution = "YesWins" ->
                    \/ \E tokens \in TokenAmounts, full_fill \in BOOLEAN :
                           ResolveYesWins(caller, tokens, full_fill)
                    \/ ResolveYesWinsCpiFails(caller)
               [] resolution = "NoWins" -> ResolveNoWins(caller)
               [] resolution = "Refund" -> ResolveRefund(caller)

\* YesWins: pro-rata share of the YES voters' token allocation
YesWinsTokens(m, pos) ==
    MulDiv(pos.yes_shares, m.yes_voter_tokens_allocated, m.total_yes_shares)

\* a payout taken from the live pool_balance instead of the snapshot
NoWinsPayoutLive(m, pos) ==
    MulDiv(pos.no_shares, m.pool_balance, m.total_no_shares)

\* NoWins: pro-rata share of the distribution pool snapshotted at resolution
NoWinsPayout(m, pos) ==
    MulDiv(pos.no_shares, m.distribution_pool, m.total_no_shares)

\* a refund of the gross amount, trade fee included
RefundAmountGross(pos) == pos.total_invested

\* Refund: the amount invested net of the trade fee
RefundAmount(pos) ==
    MulDiv(pos.total_invested, BPS_DIVISOR - TRADE_FEE_BPS, BPS_DIVISOR)

ClaimFail(e) == [err |-> e, sol |-> 0, tokens |-> 0]

\* YesWins branch of the handler
ClaimYesWins(m, pos, tokens_held) ==
    IF ~(pos.yes_shares > 0) THEN ClaimFail("InsufficientBalance")
    ELSE IF ~(m.total_yes_shares > 0) THEN ClaimFail("MathError")
    ELSE IF ~(m.yes_voter_tokens_allocated > 0)
    THEN ClaimFail("InsufficientBalance")
    ELSE LET user_tokens == YesWinsTokens(m, pos)
         IN  IF ~(user_tokens > 0) THEN ClaimFail("InsufficientBalance")
             ELSE IF user_tokens > tokens_held
             THEN ClaimFail("TokenInsufficientFunds")
             ELSE [err |-> "Ok", sol |-> 0, tokens |-> user_tokens]

\* a NoWins claim that shares out the lamports the market account holds and
\* keeps no check against market.pool_balance
ClaimNoWinsLive(m, pos, lamports) ==
    IF ~(pos.no_shares > 0) THEN ClaimFail("InsufficientBalance")
    ELSE IF ~(m.total_no_shares > 0) THEN ClaimFail("MathError")
    ELSE LET user_payout == MulDiv(pos.no_shares, lamports, m.total_no_shares)
         IN  IF ~(user_payout > 0) THEN ClaimFail("InsufficientBalance")
             ELSE [err |-> "Ok", sol |-> user_payout, tokens |-> 0]

\* NoWins branch of the handler; the last check is the checked_sub that
\* updates market.pool_balance
ClaimNoWins(m, pos, lamports) ==
    IF ~(pos.no_shares > 0) THEN ClaimFail("InsufficientBalance")
    ELSE IF ~(m.total_no_shares > 0) THEN ClaimFail("MathError")
    ELSE IF ~(m.distribution_pool > 0) THEN ClaimFail("InsufficientBalance")
    ELSE LET user_payout == NoWinsPayout(m, pos)
         IN  IF ~(user_payout > 0) THEN ClaimFail("InsufficientBalance")
             ELSE IF ~(user_payout <= lamports)
             THEN ClaimFail("InsufficientBalance")
             ELSE IF m.pool_balance < user_payout THEN ClaimFail("MathError")
             ELSE [err |-> "Ok", sol |-> user_payout, tokens |-> 0]

\* Refund branch of the handler
ClaimRefund(m, pos, lamports) ==
    IF ~(pos.total_invested > 0) THEN ClaimFail("InsufficientBalance")
    ELSE LET refund_amount == RefundAmount(pos)
         IN  IF ~(refund_amount > 0) THEN ClaimFail("InsufficientBalance")
             ELSE IF ~(refund_amount <= lamports)
             THEN ClaimFail("InsufficientBalance")
             ELSE IF m.pool_balance < refund_amount THEN ClaimFail("MathError")
             ELSE [err |-> "Ok", sol |-> refund_amount, tokens |-> 0]

\* the Accounts constraints, then the handler: [err, sol, tokens].  A position
\* PDA that was never created, or was closed, fails to load.
ClaimOutcome(m, pos, lamports, tokens_held) ==
    IF m.resolution = "Unresolved" THEN ClaimFail("InvalidResolutionState")
    ELSE IF ~pos.exists THEN ClaimFail("AccountNotInitialized")
    ELSE IF pos.claimed THEN ClaimFail("AlreadyClaimed")
    ELSE CASE m.resolution = "YesWins" -> ClaimYesWins(m, pos, tokens_held)
           [] m.resolution = "NoWins" -> ClaimNoWins(m, pos, lamports)
           [] m.resolution = "Refund" -> ClaimRefund(m, pos, lamports)

\* a claim that neither sets the flag nor closes the position
ClaimedPositionKept(pos) == pos

\* the position PDA after a successful claim: claimed is set and the account
\* is closed by the `close = user` constraint
ClaimedPosition(pos) == EmptyPosition

ClaimRewards(u) ==
    LET o == ClaimOutcome(market, position[u], market_lamports, market_tokens)
    IN  IF o.err # "Ok" THEN Reject("claim_rewards", u, o.err)
        ELSE /\ market_lamports' = market_lamports - o.sol
             /\ market_tokens' = market_tokens - o.tokens
             /\ received' = [received EXCEPT
                    ![u] = [sol |-> @.sol + o.sol, tokens |-> @.tokens + o.tokens]]
             /\ market' = [market EXCEPT !.pool_balance = @ - o.sol]
             /\ position' = [position EXCEPT ![u] = ClaimedPosition(@)]
             /\ result' = [op |-> "claim_rewards", who |-> u, err |-> "Ok"]
             /\ UNCHANGED <<vesting, treasury, vault_lamports, now, trades>>

\* a close_position that accepts any position
ClosePositionErrorAnyTime(m, pos) ==
    IF ~pos.exists THEN "AccountNotInitialized"
    ELSE "Ok"

\* --------------------------------------------------------- close_position
ClosePositionError(m, pos) ==
    IF ~pos.exists THEN "AccountNotInitialized"
    ELSE IF ~(pos.claimed \/ m.resolution = "Refund") THEN "CannotClosePosition"
    ELSE "Ok"

ClosePosition(u) ==
    LET err == ClosePositionError(market, position[u])
    IN  IF err # "Ok" THEN Reject("close_position", u, err)
        ELSE /\ position' = [position EXCEPT ![u] = EmptyPosition]
             /\ result' = [op |-> "close_position", who |-> u, err |-> "Ok"]
             /\ UNCHANGED <<vesting, market, treasury, vault_lamports, market_lamports,
                            market_tokens, received, now, trades>>

\* the cluster clock
Tick ==
    /\ now < MaxTime
    /\ now' = now + 1
    /\ UNCHANGED <<vesting, market, position, treasury, vault_lamports, market_lamports,
                   market_tokens, received, trades, result>>

\* ------------------------------------------------------------------ vesting
\* a.saturating_sub(b)
SaturatingSub(a, b) == IF a > b THEN a - b ELSE 0

\* a linear unlock rounded up
calculate_unlocked_vested_rounded_up(v, current_timestamp) ==
    LET elapsed == current_timestamp - v.vesting_start
    IN  IF elapsed >= v.vesting_duration THEN v.vesting
        ELSE IF elapsed <= 0 THEN 0
        ELSE MulDiv(v.vesting, elapsed, v.vesting_duration)
               + (IF MulDivMod(v.vesting, elapsed, v.vesting_duration)[2] > 0
                  THEN 1 ELSE 0)

\* an unlock with a cliff: nothing until the whole period has passed
calculate_unlocked_vested_cliff(v, current_timestamp) ==
    IF current_timestamp - v.vesting_start >= v.vesting_duration
    THEN v.vesting ELSE 0

\* calculate_unlocked_vested_sol / calculate_unlocked_vested_tokens
calculate_unlocked_vested(v, current_timestamp) ==
    LET elapsed == current_timestamp - v.vesting_start
    IN  IF elapsed >= v.vesting_duration THEN v.vesting
        ELSE IF elapsed <= 0 THEN 0
        ELSE MulDiv(v.vesting, elapsed, v.vesting_duration)

\* a claimable amount that forgets what was claimed of the vested part
calculate_claimable_forgetful(v, current_timestamp) ==
    (IF ~v.immediate_claimed THEN v.immediate ELSE 0)
        + calculate_unlocked_vested(v, current_timestamp)

\* calculate_claimable_sol / calculate_claimable_tokens
calculate_claimable(v, current_timestamp) ==
    LET immediate_part == IF ~v.immediate_claimed THEN v.immediate ELSE 0
        unlocked_vested == calculate_unlocked_vested(v, current_timestamp)
        vested_claimed ==
            SaturatingSub(v.claimed,
                          IF v.immediate_claimed THEN v.immediate ELSE 0)
        claimable_vested == SaturatingSub(unlocked_vested, vested_claimed)
    IN  immediate_part + claimable_vested

\* a claim that does not record that the immediate part has gone
VestingClaimedNoFlag(v, claimable) ==
    [v EXCEPT !.claimed = @ + claimable]

\* the schedule after a claim of `claimable`
VestingClaimed(v, claimable) ==
    [v EXCEPT !.immediate_claimed = @ \/ v.immediate > 0,
              !.claimed = @ + claimable]

\* init_team_vesting: the Accounts constraints, then the handler's checks
InitTeamVestingError(m, v, total_token_supply) ==
    IF m.resolution # "YesWins" THEN "InvalidResolutionState"
    ELSE IF m.token_mint # "Some" THEN "InvalidResolutionState"
    ELSE IF v.exists THEN "AccountAlreadyInUse"
    ELSE IF ~(MulDiv(total_token_supply, TEAM_TOKEN_SHARE_BPS, BPS_DIVISOR)
                > 0)
         \/ ~(MulDiv(total_token_supply, TEAM_IMMEDIATE_SHARE_BPS,
                     BPS_DIVISOR) > 0)
         \/ ~(MulDiv(total_token_supply, TEAM_VESTED_SHARE_BPS, BPS_DIVISOR)
                > 0)
    THEN "InsufficientBalance"
    ELSE "Ok"

\* the schedule init_team_vesting writes
NewTeamVesting(team_wallet, total_token_supply, current_time) ==
    [exists |-> TRUE,
     wallet |-> team_wallet,
     total |-> MulDiv(total_token_supply, TEAM_TOKEN_SHARE_BPS, BPS_DIVISOR),
     immediate |-> MulDiv(total_token_supply, TEAM_IMMEDIATE_SHARE_BPS,
                          BPS_DIVISOR),
     vesting |-> MulDiv(total_token_supply, TEAM_VESTED_SHARE_BPS,
                        BPS_DIVISOR),
     claimed |-> 0,
     immediate_claimed |-> FALSE,
     vesting_start |-> current_time,
     vesting_duration |-> VESTING_DURATION_SECONDS]

InitTeamVesting(caller, team_wallet, total_token_supply) ==
    LET err == InitTeamVestingError(market, vesting.team, total_token_supply)
    IN  IF err # "Ok" THEN Reject("init_team_vesting", caller, err)
        ELSE /\ vesting' = [vesting EXCEPT !.team =
                    NewTeamVesting(team_wallet, total_token_supply, now)]
             /\ result' = [op |-> "init_team_vesting", who |-> caller,
                           err |-> "Ok"]
             /\ UNCHANGED <<market, position, treasury, vault_lamports,
                            market_lamports, market_tokens, received, now,
                            trades>>

\* claim_team_tokens: [err, amount]
ClaimTeamTokensOutcome(v, signer, tokens_held, current_time) ==
    IF ~v.exists THEN [err |-> "AccountNotInitialized", amount |-> 0]
    ELSE IF v.wallet # signer THEN [err |-> "Unauthorized", amount |-> 0]
    ELSE LET claimable == calculate_claimable(v, current_time)
         IN  IF ~(claimable > 0)
             THEN [err |-> "InsufficientBalance", amount |-> 0]
             ELSE IF claimable > tokens_held
             THEN [err |-> "TokenInsufficientFunds", amount |-> 0]
             ELSE [err |-> "Ok", amount |-> claimable]

ClaimTeamTokens(signer) ==
    LET o == ClaimTeamTokensOutcome(vesting.team, signer, market_tokens, now)
    IN  IF o.err # "Ok" THEN Reject("claim_team_tokens", signer, o.err)
        ELSE /\ market_tokens' = market_tokens - o.amount
             /\ received' = [received EXCEPT
                    ![signer].tokens = @ + o.amount]
             /\ vesting' = [vesting EXCEPT
                    !.team = VestingClaimed(@, o.amount)]
             /\ result' = [op |-> "claim_team_tokens", who |-> signer,
                           err |-> "Ok"]
             /\ UNCHANGED <<market, position, treasury, vault_lamports,
                            market_lamports, now, trades>>

\* init_founder_vesting: the Accounts constraints, then the handler's checks
InitFounderVestingError(m, v, caller) ==
    LET total_excess == m.founder_excess_sol_allocated
        immediate_sol ==
            MulDiv(total_excess, FOUNDER_IMMEDIATE_SHARE_BPS, BPS_DIVISOR)
    IN  IF m.resolution # "YesWins" THEN "InvalidResolutionState"
        ELSE IF ~(total_excess > 0) THEN "NoExcessSol"
        ELSE IF m.founder_vesting_initialized THEN "AlreadyInitialized"
        ELSE IF v.exists THEN "AccountAlreadyInUse"
        ELSE IF caller # m.founder THEN "Unauthorized"
        ELSE IF ~(immediate_sol > 0) THEN "MathError"
        ELSE IF ~(total_excess - immediate_sol > 0) THEN "MathError"
        ELSE "Ok"

\* the schedule init_founder_vesting writes
NewFounderVesting(m, current_time) ==
    LET total_excess == m.founder_excess_sol_allocated
        immediate_sol ==
            MulDiv(total_excess, FOUNDER_IMMEDIATE_SHARE_BPS, BPS_DIVISOR)
    IN  [exists |-> TRUE,
         wallet |-> m.founder,
         total |-> total_excess,
         immediate |-> immediate_sol,
         vesting |-> total_excess - immediate_sol,
         claimed |-> 0,
         immediate_claimed |-> FALSE,
         vesting_start |-> current_time,
         vesting_duration |-> VESTING_DURATION_SECONDS]

InitFounderVesting(caller) ==
    LET err == InitFounderVestingError(market, vesting.founder, caller)
    IN  IF err # "Ok" THEN Reject("init_founder_vesting", caller, err)
        ELSE /\ vesting' = [vesting EXCEPT !.founder =
                    NewFounderVesting(market, now)]
             /\ market' = [market EXCEPT !.founder_vesting_initialized = TRUE]
             /\ result' = [op |-> "init_founder_vesting", who |-> caller,
                           err |-> "Ok"]
             /\ UNCHANGED <<position, treasury, vault_lamports,
                            market_lamports, market_tokens, received, now,
                            trades>>

\* claim_founder_sol: [err, amount]
ClaimFounderSolOutcome(m, v, caller, lamports, current_time) ==
    IF ~v.exists THEN [err |-> "AccountNotInitialized", amount |-> 0]
    ELSE IF v.wallet # caller THEN [err |-> "Unauthorized", amount |-> 0]
    ELSE IF caller # m.founder THEN [err |-> "Unauthorized", amount |-> 0]
    ELSE LET claimable == calculate_claimable(v, current_time)
         IN  IF ~(claimable > 0) THEN [err |-> "NothingToClaim", amount |-> 0]
             ELSE IF claimable > lamports
             THEN [err |-> "InsufficientFunds", amount |-> 0]
             ELSE [err |-> "Ok", amount |-> claimable]

\* the system program carries out the transfer (transfer_ok) or refuses it
ClaimFounderSol(caller, transfer_ok) ==
    LET o == ClaimFounderSolOutcome(market, vesting.founder, caller,
                                    market_lamports, now)
    IN  IF o.err # "Ok" THEN Reject("claim_founder_sol", caller, o.err)
        ELSE IF ~transfer_ok
        THEN Reject("claim_founder_sol", caller, "ExternalProgramError")
        ELSE /\ market_lamports' = market_lamports - o.amount
             /\ received' = [received EXCEPT ![caller].sol = @ + o.amount]
             /\ vesting' = [vesting EXCEPT
                    !.founder = VestingClaimed(@, o.amount)]
             /\ result' = [op |-> "claim_founder_sol", who |-> caller,
                           err |-> "Ok"]
             /\ UNCHANGED <<market, position, treasury, vault_lamports,
                            market_tokens, now, trades>>

\* the cluster clock over the vesting period, a quarter of it at a time
VestTick ==
    /\ now < MaxVestTicks * VestStep
    /\ now' = now + VestStep
    /\ UNCHANGED <<market, position, treasury, vault_lamports, market_lamports,
                   market_tokens, received, trades, result, vesting>>

Next ==
    \/ \E u \in Traders, a \in Amounts : BuyYes(u, a)
    \/ \E u \in Traders, a \in Amounts : BuyNo(u, a)
    \/ \E c \in Users : ExtendMarket(c)
    \/ \E c \in Users : ResolveMarket(c)
    \/ \E u \in Users : ClaimRewards(u)
    \/ \E u \in Users : ClosePosition(u)
    \/ Tick

Spec == Init /\ [][Next]_vars
\* ================================================================ claims
\* SOL paid out by claim_rewards to the participants of S
RECURSIVE SolReceived(_)
SolReceived(S) ==
    IF S = {} THEN 0
    ELSE LET u == CHOOSE x \in S : TRUE
         IN  received[u].sol + SolReceived(S \ {u})

\* C1: in a market resolved to NoWins the SOL paid out by all claim_rewards
\* calls together never exceeds the distribution_pool snapshotted at resolution.
C1_NoOverDistribution ==
    market.resolution = "NoWins" =>
        SolReceived(Users) <= market.distribution_pool

\* two NO holders have both been paid
C1_Witness ==
    /\ market.resolution = "NoWins"
    /\ \E u, v \in Users :
          u # v /\ received[u].sol > 0 /\ received[v].sol > 0

\* C2: after NoWins resolution distribution_pool and total_no_shares are frozen,
\* and every step either leaves a participant's position and receipts alone or
\* is that participant's own claim, paying floor(distribution_pool * no_shares /
\* total_no_shares) of the frozen fields: what a holder gets does not depend
\* on where in the order of claims the holder comes.
C2_ClaimOrderIndependence ==
    [][market.resolution = "NoWins" =>
        /\ market'.distribution_pool = market.distribution_pool
        /\ market'.total_no_shares = market.total_no_shares
        /\ \A u \in Users :
              \/ position'[u] = position[u] /\ received'[u] = received[u]
              \/ /\ ClaimRewards(u)
                 /\ received'[u].sol =
                        received[u].sol
                        + MulDiv(position[u].no_shares, market.distribution_pool,
                                 market.total_no_shares)
                 /\ ~position'[u].exists]_vars

\* a NO holder has just been paid after another holder was paid
C2_Witness ==
    /\ market.resolution = "NoWins"
    /\ result.op = "claim_rewards" /\ result.err = "Ok"
    /\ received[result.who].sol > 0
    /\ \E v \in Users : v # result.who /\ received[v].sol > 0

\* C3: once resolution is YesWins, NoWins or Refund no step changes it, and a
\* resolve_market call then fails with AlreadyResolved and changes no account.
C3_ResolutionMonotonic ==
    [][market.resolution # "Unresolved" =>
        /\ market'.resolution = market.resolution
        /\ \A c \in Users :
              ResolveMarket(c) =>
                  /\ result'.err = "AlreadyResolved"
                  /\ UNCHANGED <<market, position, treasury, vault_lamports,
                                 market_lamports, market_tokens, received>>]_vars

\* resolve_market was called on a resolved market
C3_Witness ==
    /\ market.resolution # "Unresolved"
    /\ result.op = "resolve_market" /\ result.err = "AlreadyResolved"

\* C4: the outcome a successful resolve_market writes is decided by
\* pool_balance, target_pool and the two share totals alone: Refund below the
\* target, else YesWins or NoWins for the larger total, else (tie) Refund.
C4_ResolutionDeterminism ==
    [][(market.resolution = "Unresolved" /\ market'.resolution # "Unresolved") =>
        market'.resolution =
            IF market.pool_balance < market.target_pool THEN "Refund"
            ELSE IF market.total_yes_shares > market.total_no_shares
            THEN "YesWins"
            ELSE IF market.total_no_shares > market.total_yes_shares
            THEN "NoWins"
            ELSE "Refund"]_vars

\* a full pool with equal share totals was resolved to Refund
C4_Witness ==
    /\ market.resolution = "Refund"
    /\ market.total_yes_shares = market.total_no_shares
    /\ market.total_yes_shares > 0
    /\ market_lamports = MarketRentExempt + market.target_pool

C6_OnePositionRule ==
    /\ [](\A u \in Users :
            ~(position[u].yes_shares > 0 /\ position[u].no_shares > 0))
    /\ [][\A u \in Traders, a \in Amounts :
            /\ (BuyNo(u, a) /\ position[u].yes_shares > 0) =>
                  /\ result'.err # "Ok"
                  /\ UNCHANGED <<market, position, treasury, vault_lamports,
                                 market_lamports, market_tokens, received>>
                  /\ (market.resolution = "Unresolved"
                        /\ now < market.expiry_time
                        /\ a >= MIN_INVESTMENT_LAMPORTS)
                     => result'.err = "AlreadyHasPosition"
            /\ (BuyYes(u, a) /\ position[u].no_shares > 0) =>
                  /\ result'.err # "Ok"
                  /\ UNCHANGED <<market, position, treasury, vault_lamports,
                                 market_lamports, market_tokens, received>>
                  /\ (market.resolution = "Unresolved"
                        /\ now < market.expiry_time
                        /\ a >= MIN_INVESTMENT_LAMPORTS)
                     => result'.err = "AlreadyHasPosition"]_vars

\* a holder of one side was turned away from the other side
C6_Witness ==
    /\ result.op \in {"buy_yes", "buy_no"}
    /\ result.err = "AlreadyHasPosition"
    /\ position[result.who].yes_shares + position[result.who].no_shares > 0

C8_NoWinsFeeOfPoolBalance ==
    [][(market.resolution = "Unresolved" /\ market'.resolution = "NoWins") =>
        LET fee == MulDiv(market.pool_balance, COMPLETION_FEE_BPS, BPS_DIVISOR)
        IN  /\ treasury'.total_fees = treasury.total_fees + fee
            /\ market'.distribution_pool = market.pool_balance - fee]_vars

C10_FundingResolvesYesWins ==
    [][(market.phase = "Funding" /\ market.resolution = "Unresolved"
          /\ market'.resolution # "Unresolved")
        => market'.resolution = "YesWins"]_vars
\* C11: while the phase is Prediction pool_balance never exceeds target_pool,
\* and a successful buy whose net amount (sol_amount less the 1.5% fee) is
\* larger than target_pool - pool_balance adds exactly target_pool -
\* pool_balance to pool_balance.
C11_PredictionCap ==
    /\ [](market.phase = "Prediction" =>
            market.pool_balance <= market.target_pool)
    /\ [][(trades' = trades + 1 /\ market.phase = "Prediction") =>
            \A u \in Traders, a \in Amounts :
                (a - MulDiv(a, TRADE_FEE_BPS, BPS_DIVISOR)
                      > market.target_pool - market.pool_balance
                   /\ (BuyYes(u, a) \/ BuyNo(u, a)))
                => market'.pool_balance - market.pool_balance
                      = market.target_pool - market.pool_balance]_vars

\* a second buy was cut down to the capacity the first one left
C11_Witness ==
    /\ market.phase = "Prediction"
    /\ result.op \in {"buy_yes", "buy_no"} /\ result.err = "Ok"
    /\ trades = 2
    /\ market.pool_balance = market.target_pool
    /\ position[result.who].total_invested < 520000000
\* ------------------------------------------- capped buys over many targets
\* create_market accepts every target_pool >= MIN_POOL_LAMPORTS; CapSpec creates
\* the market with one of a run of consecutive targets (every residue of the
\* reverse fee division by 9850 occurs) and lets the participants buy
CapTargetPools == MIN_POOL_LAMPORTS .. (MIN_POOL_LAMPORTS + MaxCapOffset)
CapAmounts == {MIN_INVESTMENT_LAMPORTS, 520000000}

CapInit ==
    /\ \E tp \in CapTargetPools, et \in ExpiryTimes : market = NewMarket(tp, et)
    /\ position = [u \in Users |-> EmptyPosition]
    /\ treasury = [total_fees |-> 0]
    /\ vault_lamports = VaultRentExempt
    /\ market_lamports = MarketRentExempt
    /\ market_tokens = 0
    /\ received = [u \in Users |-> [sol |-> 0, tokens |-> 0]]
    /\ now = 0
    /\ trades = 0
    /\ result = NoResult
    /\ vesting = NoVesting

CapNext ==
    \/ \E u \in Traders, a \in CapAmounts : BuyYes(u, a)
    \/ \E u \in Traders, a \in CapAmounts : BuyNo(u, a)

CapSpec == CapInit /\ [][CapNext]_vars

\* C12: in every successful capped buy, with n the net amount added to the
\* pool, the participant is charged a = floor(n * 10000 / 9850) and the
\* treasury gets a - n, and the forward fee of the charged amount,
\* floor(a * 150 / 10000), is that same a - n: the net deposit is what the
\* forward formula grants for the amount paid.
C12_ReverseFeeConsistent ==
    [][(trades' = trades + 1 /\ market.phase = "Prediction"
          /\ market'.pool_balance = market.target_pool) =>
        \A u \in Traders :
            position'[u] # position[u] =>
                LET n == market'.pool_balance - market.pool_balance
                    a == position'[u].total_invested - position[u].total_invested
                    fee == treasury'.total_fees - treasury.total_fees
                IN  /\ a = MulDiv(n, BPS_DIVISOR, BPS_DIVISOR - TRADE_FEE_BPS)
                    /\ fee = a - n
                    /\ MulDiv(a, TRADE_FEE_BPS, BPS_DIVISOR) = a - n
                    /\ n <= a - MulDiv(a, TRADE_FEE_BPS, BPS_DIVISOR)]_vars

\* a capped buy filled a pool whose target is not the minimum
C12_Witness ==
    /\ market.target_pool > MIN_POOL_LAMPORTS
    /\ market.pool_balance = market.target_pool
    /\ result.op \in {"buy_yes", "buy_no"} /\ result.err = "Ok"
    /\ position[result.who].total_invested < 520000000
\* C13: a successful buy_yes(sol_amount) that is not capped takes fee =
\* floor(sol_amount * 150 / 10000), deposits net = sol_amount - fee and grants
\* shares = yes_pool - floor(yes_pool * no_pool / (no_pool + net)); the
\* treasury's total_fees grows by fee, pool_balance and no_pool by net,
\* yes_pool shrinks by shares, total_yes_shares and the position's yes_shares
\* grow by shares and the position's total_invested by sol_amount.  buy_no
\* does the same with the two pools and the two sides exchanged.
C13_UncappedBuyEffect ==
    [][(trades' = trades + 1) =>
        \A u \in Traders, a \in Amounts :
            LET fee == MulDiv(a, TRADE_FEE_BPS, BPS_DIVISOR)
                net == a - fee
                uncapped == \/ market.phase # "Prediction"
                            \/ net <= market.target_pool - market.pool_balance
                yes_shares == market.yes_pool
                    - MulDiv(market.yes_pool, market.no_pool,
                             market.no_pool + net)
                no_shares == market.no_pool
                    - MulDiv(market.yes_pool, market.no_pool,
                             market.yes_pool + net)
            IN  /\ (uncapped /\ BuyYes(u, a)) =>
                      /\ treasury'.total_fees = treasury.total_fees + fee
                      /\ market'.pool_balance = market.pool_balance + net
                      /\ market'.no_pool = market.no_pool + net
                      /\ market'.yes_pool = market.yes_pool - yes_shares
                      /\ market'.total_yes_shares
                            = market.total_yes_shares + yes_shares
                      /\ market'.total_no_shares = market.total_no_shares
                      /\ position'[u].yes_shares
                            = position[u].yes_shares + yes_shares
                      /\ position'[u].no_shares = position[u].no_shares
                      /\ position'[u].total_invested
                            = position[u].total_invested + a
                /\ (uncapped /\ BuyNo(u, a)) =>
                      /\ treasury'.total_fees = treasury.total_fees + fee
                      /\ market'.pool_balance = market.pool_balance + net
                      /\ market'.yes_pool = market.yes_pool + net
                      /\ market'.no_pool = market.no_pool - no_shares
                      /\ market'.total_no_shares
                            = market.total_no_shares + no_shares
                      /\ market'.total_yes_shares = market.total_yes_shares
                      /\ position'[u].no_shares
                            = position[u].no_shares + no_shares
                      /\ position'[u].yes_shares = position[u].yes_shares
                      /\ position'[u].total_invested
                            = position[u].total_invested + a]_vars

\* an uncapped buy_yes and an uncapped buy_no have both gone through
C13_Witness ==
    \E u, v \in Traders :
        /\ position[u].yes_shares > 0
        /\ position[u].total_invested = MIN_INVESTMENT_LAMPORTS
        /\ position[v].no_shares > 0
        /\ position[v].total_invested = 415823611
        /\ market.pool_balance < market.target_pool
\* C14: a buy_yes or buy_no on a resolved market is rejected with
\* AlreadyResolved, and one at or after expiry_time with MarketExpired (with
\* AlreadyResolved when the market is resolved as well: that constraint is
\* checked first); either way no account changes.  So after resolution, and
\* at or after expiry, the two pools and the two share totals never change,
\* and no position's shares are rewritten (a position account can only be
\* closed).
C14_NoBuyAfterResolutionOrExpiry ==
    [][(market.resolution # "Unresolved" \/ now >= market.expiry_time) =>
        /\ market'.yes_pool = market.yes_pool
        /\ market'.no_pool = market.no_pool
        /\ market'.total_yes_shares = market.total_yes_shares
        /\ market'.total_no_shares = market.total_no_shares
        /\ \A u \in Users :
              position'[u].exists =>
                  /\ position'[u].yes_shares = position[u].yes_shares
                  /\ position'[u].no_shares = position[u].no_shares
        /\ \A u \in Traders, a \in Amounts :
              (result'.who = u /\ result'.op \in {"buy_yes", "buy_no"}
                 /\ (BuyYes(u, a) \/ BuyNo(u, a))) =>
                  /\ result'.err =
                        IF market.resolution # "Unresolved"
                        THEN "AlreadyResolved" ELSE "MarketExpired"
                  /\ UNCHANGED <<market, position, treasury, vault_lamports,
                                 market_lamports, market_tokens, received>>]_vars

\* a buy was turned away from an expired market that holds shares
C14_Witness ==
    /\ result.op \in {"buy_yes", "buy_no"} /\ result.err = "MarketExpired"
    /\ now >= market.expiry_time
    /\ market.total_yes_shares + market.total_no_shares > 0
\* C15: market.phase changes only from Prediction to Funding, and only in an
\* extend_market call by the founder on an Unresolved market in Prediction
\* whose pool_balance has reached target_pool with YES strictly ahead; that
\* call changes nothing but market.phase.  Every other extend_market call
\* fails with Unauthorized, InvalidMarketPhase, AlreadyResolved,
\* TargetNotReached or YesNotWinning, the condition the error names being
\* false, and changes no account.
C15_PhaseTransition ==
    [][LET ok(c) == /\ c = market.founder
                    /\ market.resolution = "Unresolved"
                    /\ market.phase = "Prediction"
                    /\ market.pool_balance >= market.target_pool
                    /\ market.total_yes_shares > market.total_no_shares
       IN  /\ market'.phase # market.phase =>
                 /\ market.phase = "Prediction" /\ market'.phase = "Funding"
                 /\ ok(market.founder)
                 /\ ExtendMarket(market.founder)
           /\ \A c \in Users :
                 (result'.op = "extend_market" /\ result'.who = c
                    /\ ExtendMarket(c)) =>
                     IF ok(c)
                     THEN /\ result'.err = "Ok"
                          /\ market' = [market EXCEPT !.phase = "Funding"]
                          /\ UNCHANGED <<position, treasury, vault_lamports,
                                         market_lamports, market_tokens,
                                         received>>
                     ELSE /\ result'.err \in
                                {"Unauthorized", "InvalidMarketPhase",
                                 "AlreadyResolved", "TargetNotReached",
                                 "YesNotWinning"}
                          /\ result'.err = "Unauthorized"
                                => c # market.founder
                          /\ result'.err = "InvalidMarketPhase"
                                => market.phase # "Prediction"
                          /\ result'.err = "AlreadyResolved"
                                => market.resolution # "Unresolved"
                          /\ result'.err = "TargetNotReached"
                                => market.pool_balance < market.target_pool
                          /\ result'.err = "YesNotWinning"
                                => ~(market.total_yes_shares
                                       > market.total_no_shares)
                          /\ UNCHANGED <<market, position, treasury,
                                         vault_lamports, market_lamports,
                                         market_tokens, received>>]_vars

\* the founder has just moved the market to Funding
C15_Witness ==
    /\ market.phase = "Funding"
    /\ result.op = "extend_market" /\ result.err = "Ok"
    /\ result.who = market.founder
\* --------------------------------------------- vesting after a YesWins market
\* VestSpec starts from a market that resolve_market has resolved to YesWins:
\* the tokens bought are in the market's token account and the excess SOL, if
\* any, in the market account.  An excess means a vault above 50 SOL, beyond
\* the integers of the model, so the trading fields, which no vesting
\* instruction reads, stay at their creation values.
VestInit ==
    /\ \E e \in VestExcess, tokens \in TokenAmounts :
          /\ market = [NewMarket(MIN_POOL_LAMPORTS, 1) EXCEPT
                 !.resolution = "YesWins",
                 !.token_mint = "Some",
                 !.pool_balance = VaultRentExempt,
                 !.platform_tokens_allocated =
                     MulDiv(tokens, PLATFORM_TOKEN_SHARE_BPS, BPS_DIVISOR),
                 !.yes_voter_tokens_allocated =
                     tokens
                     - MulDiv(tokens, PLATFORM_TOKEN_SHARE_BPS, BPS_DIVISOR)
                     - MulDiv(tokens, TEAM_TOKEN_SHARE_BPS, BPS_DIVISOR),
                 !.founder_excess_sol_allocated = e]
          /\ market_lamports = MarketRentExempt + e
          /\ market_tokens = tokens
    /\ position = [u \in Users |-> EmptyPosition]
    /\ treasury = [total_fees |-> 0]
    /\ vault_lamports = VaultRentExempt
    /\ received = [u \in Users |-> [sol |-> 0, tokens |-> 0]]
    /\ now = 0
    /\ trades = 0
    /\ result = [op |-> "resolve_market", who |-> Founder, err |-> "Ok"]
    /\ vesting = NoVesting

VestNext ==
    \/ \E c \in Users, w \in TeamWallets, s \in VestSupplies :
          InitTeamVesting(c, w, s)
    \/ \E c \in Users : ClaimTeamTokens(c)
    \/ \E c \in Users : InitFounderVesting(c)
    \/ \E c \in Users, transfer_ok \in BOOLEAN : ClaimFounderSol(c, transfer_ok)
    \/ VestTick

VestSpec == VestInit /\ [][VestNext]_vars

\* C16: for the team-token and the founder-SOL schedule alike, whatever the
\* claims and the times (the clock never runs backwards) they are made at,
\* claimed never decreases and never exceeds total.
C16_ClaimedMonotoneBounded ==
    /\ [](/\ vesting.team.claimed <= vesting.team.total
          /\ vesting.founder.claimed <= vesting.founder.total)
    /\ [][/\ vesting'.team.claimed >= vesting.team.claimed
          /\ vesting'.founder.claimed >= vesting.founder.claimed]_vars

\* the founder has claimed the whole allocation, and the team part of its
\* vested tokens
C16_Witness ==
    /\ vesting.founder.exists
    /\ vesting.founder.claimed = vesting.founder.total
    /\ received[Founder].sol = vesting.founder.total
    /\ now >= vesting.founder.vesting_start + VESTING_DURATION_SECONDS
    /\ vesting.team.exists
    /\ vesting.team.claimed > vesting.team.immediate

\* C17: a successful vesting claim at time now transfers out of the market's
\* holdings claimable = (immediate if immediate_claimed is not set, else 0)
\* + max(0, unlocked(now) - (claimed - (immediate if immediate_claimed is set,
\* else 0))), unlocked being vesting once the period is over and
\* floor(vesting * elapsed / vesting_duration) before; it adds claimable to
\* claimed and sets immediate_claimed.  With immediate 8, vesting 92 and half
\* of the period elapsed, the first claim transfers 54.
C17_ClaimTransfersClaimable ==
    [][LET Claimable(v) ==
               LET elapsed == now - v.vesting_start
                   unlocked ==
                       IF elapsed >= v.vesting_duration THEN v.vesting
                       ELSE IF elapsed <= 0 THEN 0
                       ELSE MulDiv(v.vesting, elapsed, v.vesting_duration)
                   already == v.claimed
                       - (IF v.immediate_claimed THEN v.immediate ELSE 0)
               IN  (IF v.immediate_claimed THEN 0 ELSE v.immediate)
                   + (IF unlocked > already THEN unlocked - already ELSE 0)
           Example(v) ==
               (v.immediate = 8 /\ v.vesting = 92 /\ ~v.immediate_claimed
                  /\ 2 * (now - v.vesting_start) = v.vesting_duration)
               => Claimable(v) = 54
       IN  /\ (vesting.founder.exists
                 /\ vesting'.founder # vesting.founder) =>
                 /\ result'.op = "claim_founder_sol"
                 /\ market_lamports'
                       = market_lamports - Claimable(vesting.founder)
                 /\ received'[result'.who].sol
                       = received[result'.who].sol
                         + Claimable(vesting.founder)
                 /\ vesting'.founder.claimed
                       = vesting.founder.claimed + Claimable(vesting.founder)
                 /\ vesting'.founder.immediate_claimed
                 /\ Example(vesting.founder)
           /\ (vesting.team.exists /\ vesting'.team # vesting.team) =>
                 /\ result'.op = "claim_team_tokens"
                 /\ market_tokens' = market_tokens - Claimable(vesting.team)
                 /\ received'[result'.who].tokens
                       = received[result'.who].tokens
                         + Claimable(vesting.team)
                 /\ vesting'.team.claimed
                       = vesting.team.claimed + Claimable(vesting.team)
                 /\ vesting'.team.immediate_claimed
                 /\ Example(vesting.team)]_vars

\* the first claim on a schedule of 8 + 92, half way through, has paid 54
C17_Witness ==
    /\ vesting.founder.immediate = 8 /\ vesting.founder.vesting = 92
    /\ 2 * (now - vesting.founder.vesting_start) = VESTING_DURATION_SECONDS
    /\ result.op = "claim_founder_sol" /\ result.err = "Ok"
    /\ vesting.founder.claimed = 54
    /\ received[Founder].sol = 54

\* C18: right after a successful vesting claim at time t the claimable amount
\* at t is 0, and a claim by the schedule's wallet while the claimable amount
\* is 0 is rejected as nothing to claim (NothingToClaim for founder SOL,
\* InsufficientBalance for team tokens) and leaves claimed and
\* immediate_claimed as they were.
C18_ClaimIdempotent ==
    [][/\ (vesting.founder.exists /\ vesting'.founder # vesting.founder) =>
             (now' = now /\ calculate_claimable(vesting'.founder, now') = 0)
       /\ (vesting.team.exists /\ vesting'.team # vesting.team) =>
             (now' = now /\ calculate_claimable(vesting'.team, now') = 0)
       /\ \A c \in Users :
             /\ (result'.op = "claim_founder_sol" /\ result'.who = c
                   /\ vesting.founder.exists /\ c = vesting.founder.wallet
                   /\ calculate_claimable(vesting.founder, now) = 0
                   /\ (ClaimFounderSol(c, TRUE) \/ ClaimFounderSol(c, FALSE)))
                => /\ result'.err = "NothingToClaim"
                   /\ vesting' = vesting
                   /\ market_lamports' = market_lamports
             /\ (result'.op = "claim_team_tokens" /\ result'.who = c
                   /\ vesting.team.exists /\ c = vesting.team.wallet
                   /\ calculate_claimable(vesting.team, now) = 0
                   /\ ClaimTeamTokens(c))
                => /\ result'.err = "InsufficientBalance"
                   /\ vesting' = vesting
                   /\ market_tokens' = market_tokens]_vars

\* the founder, paid up to now, claimed again and was turned away
C18_Witness ==
    /\ result.op = "claim_founder_sol" /\ result.err = "NothingToClaim"
    /\ vesting.founder.immediate_claimed
    /\ now > vesting.founder.vesting_start
    /\ now < vesting.founder.vesting_start + VESTING_DURATION_SECONDS
    /\ vesting.founder.claimed
          = vesting.founder.immediate
            + calculate_unlocked_vested(vesting.founder, now)

\* C19 as stated: every schedule init_founder_vesting or init_team_vesting
\* creates has total = immediate + vesting, and keeps it.
C19_TotalIsImmediatePlusVesting ==
    /\ vesting.team.exists =>
          vesting.team.total = vesting.team.immediate + vesting.team.vesting
    /\ vesting.founder.exists =>
          vesting.founder.total
              = vesting.founder.immediate + vesting.founder.vesting

\* the product k of two pools (u128 in the program) as <<k div 10^9, k mod 10^9>>
KProduct(a, b) == MulDivMod(a, b, 1000000000)

KLeq(x, y) == x[1] < y[1] \/ (x[1] = y[1] /\ x[2] <= y[2])

KSub(x, y) ==
    IF x[2] >= y[2] THEN <<x[1] - y[1], x[2] - y[2]>>
    ELSE <<x[1] - y[1] - 1, x[2] + (1000000000 - y[2])>>

\* floor(x / 1000)
KDiv1000(x) ==
    <<x[1] \div 1000, (x[1] % 1000) * 1000000 + x[2] \div 1000>>

\* 1000 * x < y
KBelowThousandth(x, y) ==
    IF y[2] % 1000 = 0 THEN KLeq(x, KDiv1000(y)) /\ x # KDiv1000(y)
    ELSE KLeq(x, KDiv1000(y))

\* C20: every successful buy leaves the product of the two pools no larger
\* than it was, and smaller by less than 0.1% of what it was.
C20_ConstantProduct ==
    [][(trades' = trades + 1) =>
        LET old_k == KProduct(market.yes_pool, market.no_pool)
            new_k == KProduct(market'.yes_pool, market'.no_pool)
            loss == KSub(old_k, new_k)
        IN  /\ KLeq(new_k, old_k)
            /\ KBelowThousandth(loss, old_k)]_vars

\* two buys have gone through and rounding has taken something off the product
C20_Witness ==
    /\ trades = 2
    /\ result.op \in {"buy_yes", "buy_no"} /\ result.err = "Ok"
    /\ KLeq(KProduct(market.yes_pool, market.no_pool),
            KProduct(market.target_pool, market.target_pool))
    /\ KProduct(market.yes_pool, market.no_pool)
          # KProduct(market.target_pool, market.target_pool)

\* C21 as stated: whenever the two prices of the market's pools are defined,
\* they add up to exactly 1_000_000_000.
C21_PriceConservation ==
    (get_yes_price(market.yes_pool, market.no_pool).err = "Ok"
       /\ get_no_price(market.yes_pool, market.no_pool).err = "Ok")
    => get_yes_price(market.yes_pool, market.no_pool).price
         + get_no_price(market.yes_pool, market.no_pool).price = 1000000000

\* ------------------------------------------------ buys on thin reserves
\* AmmSpec starts from the market as created, or from a market in Funding one
\* of whose reserves has been bought down close to the floor, and lets the
\* participants buy while the clock runs.  The reserves of a real market multiply to about
\* target_pool squared, at least 2.5 * 10^17, so a reserve near the floor has
\* a partner beyond the integers of the model; the thin markets here have a
\* smaller product and exercise the same quote.
AmmPools == {<<11000000, 1000000000>>, <<1000000000, 11000000>>,
             <<10000000, 600000000>>}

AmmInit ==
    /\ \/ market = NewMarket(MIN_POOL_LAMPORTS, 1)
       \/ \E p \in AmmPools :
             market = [NewMarket(MIN_POOL_LAMPORTS, 1) EXCEPT
                          !.phase = "Funding",
                          !.pool_balance = MIN_POOL_LAMPORTS,
                          !.yes_pool = p[1],
                          !.no_pool = p[2]]
    /\ position = [u \in Users |-> EmptyPosition]
    /\ treasury = [total_fees |-> 0]
    /\ vault_lamports = VaultRentExempt
    /\ market_lamports = MarketRentExempt
    /\ market_tokens = 0
    /\ received = [u \in Users |-> [sol |-> 0, tokens |-> 0]]
    /\ now = 0
    /\ trades = 0
    /\ result = NoResult
    /\ vesting = NoVesting

AmmNext ==
    \/ \E u \in Traders, a \in Amounts : BuyYes(u, a)
    \/ \E u \in Traders, a \in Amounts : BuyNo(u, a)
    \/ Tick

AmmSpec == AmmInit /\ [][AmmNext]_vars

\* C22: both reserves of a market stay at 10_000_000 or more, and a buy that
\* has passed the handler's earlier checks and would take the reserve of the
\* side bought below 10_000_000 is rejected with InsufficientBalance and
\* changes no account.
C22_ReservesStayPositive ==
    /\ [](market.yes_pool >= 10000000 /\ market.no_pool >= 10000000)
    /\ [][\A u \in Traders, a \in Amounts :
            LET net == BuyQuote(market, a).net
                passed(side) ==
                    /\ market.resolution = "Unresolved"
                    /\ now < market.expiry_time
                    /\ a >= MIN_INVESTMENT_LAMPORTS
                    /\ net > 0
                    /\ (IF side = "yes" THEN position[u].no_shares
                        ELSE position[u].yes_shares) = 0
                yes_after == MulDiv(market.yes_pool, market.no_pool,
                                    market.no_pool + net)
                no_after == MulDiv(market.yes_pool, market.no_pool,
                                   market.yes_pool + net)
            IN  /\ (result'.op = "buy_yes" /\ result'.who = u
                      /\ passed("yes") /\ BuyYes(u, a)) =>
                       IF yes_after < 10000000
                       THEN /\ result'.err = "InsufficientBalance"
                            /\ UNCHANGED <<market, position, treasury,
                                           vault_lamports, market_lamports,
                                           market_tokens, received>>
                       ELSE result'.err # "InsufficientBalance"
                /\ (result'.op = "buy_no" /\ result'.who = u
                      /\ passed("no") /\ BuyNo(u, a)) =>
                       IF no_after < 10000000
                       THEN /\ result'.err = "InsufficientBalance"
                            /\ UNCHANGED <<market, position, treasury,
                                           vault_lamports, market_lamports,
                                           market_tokens, received>>
                       ELSE result'.err # "InsufficientBalance"]_vars

\* a buy was turned away by the liquidity guard
C22_Witness ==
    /\ result.op \in {"buy_yes", "buy_no"}
    /\ result.err = "InsufficientBalance"
    /\ market.yes_pool >= 10000000 /\ market.no_pool >= 10000000

\* ------------------------------------------------ prices around a buy
\* PriceSpec: a market with target_pool 501_000_003 and buys only; the amount
\* 508_629_443 nets 501_000_002 and leaves one lamport of capacity, which the
\* next buy of the Prediction phase takes.
PriceTargetPool == 501000003
PriceAmounts == {MIN_INVESTMENT_LAMPORTS, 415823611, 508629443}

PriceInit ==
    /\ market = NewMarket(PriceTargetPool, 1)
    /\ position = [u \in Users |-> EmptyPosition]
    /\ treasury = [total_fees |-> 0]
    /\ vault_lamports = VaultRentExempt
    /\ market_lamports = MarketRentExempt
    /\ market_tokens = 0
    /\ received = [u \in Users |-> [sol |-> 0, tokens |-> 0]]
    /\ now = 0
    /\ trades = 0
    /\ result = NoResult
    /\ vesting = NoVesting

PriceNext ==
    \/ \E u \in Traders, a \in PriceAmounts : BuyYes(u, a)
    \/ \E u \in Traders, a \in PriceAmounts : BuyNo(u, a)

PriceSpec == PriceInit /\ [][PriceNext]_vars

\* C23 as stated: after every successful buy_yes the YES price of the pools
\* is strictly greater than before it, and after every successful buy_no the
\* NO price is strictly greater than before it.
C23_PriceStrictlyRises ==
    [][/\ (trades' = trades + 1 /\ result'.op = "buy_yes") =>
              get_yes_price(market'.yes_pool, market'.no_pool).price
                > get_yes_price(market.yes_pool, market.no_pool).price
       /\ (trades' = trades + 1 /\ result'.op = "buy_no") =>
              get_no_price(market'.yes_pool, market'.no_pool).price
                > get_no_price(market.yes_pool, market.no_pool).price]_vars

\* C23 amended: after every successful buy_yes the YES price of the pools is
\* not less than before it, and after every successful buy_no the NO price is
\* not less than before it.
C23_PriceNeverFalls ==
    [][/\ (trades' = trades + 1 /\ result'.op = "buy_yes") =>
              /\ get_yes_price(market'.yes_pool, market'.no_pool).err = "Ok"
              /\ get_yes_price(market'.yes_pool, market'.no_pool).price
                   >= get_yes_price(market.yes_pool, market.no_pool).price
       /\ (trades' = trades + 1 /\ result'.op = "buy_no") =>
              /\ get_no_price(market'.yes_pool, market'.no_pool).err = "Ok"
              /\ get_no_price(market'.yes_pool, market'.no_pool).price
                   >= get_no_price(market.yes_pool, market.no_pool).price]_vars

\* a second buy of YES has moved the pools and the YES price is above one half
C23_Witness ==
    /\ trades = 2
    /\ result.op = "buy_yes" /\ result.err = "Ok"
    /\ market.total_no_shares = 0
    /\ get_yes_price(market.yes_pool, market.no_pool).price > 500000000

\* C24: when the external token purchase fails during a resolve_market whose
\* outcome is YesWins, the market stays Unresolved, with pool_balance,
\* token_mint, the token allocations, treasury.total_fees and every balance as
\* before, and resolve_market by the same caller still passes its checks with
\* the same outcome and enough lamports in the vault for the purchase.
C24_FailedPurchaseLeavesUnresolved ==
    [][\A c \in Users :
          (result'.err = "ExternalProgramError" /\ result'.who = c
             /\ result'.op = "resolve_market" /\ ResolveMarket(c)) =>
              /\ ResolutionOutcome(market) = "YesWins"
              /\ market' = market
              /\ market'.resolution = "Unresolved"
              /\ treasury' = treasury
              /\ UNCHANGED <<vault_lamports, market_lamports, market_tokens,
                             position, received>>
              /\ ResolveError(market', c, now') = "Ok"
              /\ ResolutionOutcome(market') = "YesWins"
              /\ vault_lamports' - (VaultRentExempt + CompletionFee(vault_lamports')
                     + ExcessSol(vault_lamports' - CompletionFee(vault_lamports')))
                   >= 0]_vars

\* the purchase has failed on a market with YES ahead, which is still open
C24_Witness ==
    /\ result.op = "resolve_market"
    /\ result.err = "ExternalProgramError"
    /\ market.resolution = "Unresolved"
    /\ market.total_yes_shares > market.total_no_shares
    /\ market.pool_balance > 0

\* C25: a buy_yes or buy_no that is rejected, whatever the reason and however
\* far the handler had got, leaves the market, every position,
\* treasury.total_fees and every balance exactly as before the call.
C25_RejectedBuyChangesNothing ==
    [][\A u \in Traders :
          (result'.who = u /\ result'.op \in {"buy_yes", "buy_no"}
             /\ result'.err # "Ok"
             /\ \E a \in Amounts : BuyYes(u, a) \/ BuyNo(u, a)) =>
              UNCHANGED <<market, position, treasury, vault_lamports,
                          market_lamports, market_tokens, received, vesting>>]_vars

\* after an earlier buy had paid its fee, a buy of NO got as far as the
\* liquidity guard, past the fee and pool_balance credits, and was rejected
C25_Witness ==
    /\ result.op = "buy_no"
    /\ result.err = "InsufficientBalance"
    /\ trades = 1
    /\ treasury.total_fees > 0

\* C26: market.pool_balance never exceeds the lamports held for the market,
\* those of the market vault plus those of the market account.
C26_PoolBalanceBacked ==
    market.pool_balance <= vault_lamports + market_lamports

\* a NO holder has been paid out of a market resolved to NoWins
C26_Witness ==
    /\ market.resolution = "NoWins"
    /\ result.op = "claim_rewards" /\ result.err = "Ok"
    /\ market.pool_balance < market.distribution_pool

\* C27: the completion fee is credited to treasury.total_fees only by the
\* resolve_market call that takes the market from Unresolved to YesWins or
\* NoWins, in the amount of 5% of the vault's lamports; the call that resolves
\* the market to Refund credits nothing, and once the market is resolved
\* treasury.total_fees never changes again.
C27_CompletionFeeOnce ==
    [][/\ (market.resolution = "Unresolved"
             /\ market'.resolution \in {"YesWins", "NoWins"}) =>
              treasury'.total_fees
                = treasury.total_fees + CompletionFee(vault_lamports)
       /\ (market.resolution = "Unresolved"
             /\ market'.resolution = "Refund") =>
              treasury' = treasury
       /\ market.resolution # "Unresolved" =>
              /\ treasury' = treasury
              /\ market'.resolution = market.resolution]_vars

\* a market resolved to Refund whose treasury holds trade fees only, after a
\* second resolve_market has been turned away
C27_Witness ==
    /\ market.resolution = "Refund"
    /\ treasury.total_fees > 0
    /\ result.op = "resolve_market" /\ result.err = "AlreadyResolved"

\* C28 as stated: on the NoWins and Refund paths a claim_rewards on an open
\* position pays the computed payout clamped to the lamports the market
\* account holds, and succeeds, whenever that clamped amount is positive; it
\* is rejected only when the clamped amount is zero.
C28_DefensiveClamp ==
    [][\A u \in Users :
          (result'.who = u /\ result'.op = "claim_rewards"
             /\ market.resolution \in {"NoWins", "Refund"}
             /\ position[u].exists /\ ~position[u].claimed
             /\ ClaimRewards(u)) =>
              LET payout == IF market.resolution = "NoWins"
                            THEN NoWinsPayout(market, position[u])
                            ELSE RefundAmount(position[u])
                  clamped == IF payout <= market_lamports THEN payout
                             ELSE market_lamports
              IN  IF clamped > 0
                  THEN /\ result'.err = "Ok"
                       /\ received'[u].sol = received[u].sol + clamped
                  ELSE result'.err # "Ok"]_vars

\* ------------------------------------- token distribution after YesWins
\* DistSpec: the market as created, buys of YES, resolve_market, claim_rewards
\* and the team's vesting schedule, whose claims are paid from the same market
\* token account as the YES holders' claims.
DistBuyAmounts == {415823611}

DistNext ==
    \/ \E u \in Traders, a \in DistBuyAmounts : BuyYes(u, a)
    \/ \E c \in Users : ResolveMarket(c)
    \/ \E u \in Users : ClaimRewards(u)
    \/ \E c \in Users, w \in TeamWallets, s \in VestSupplies :
          InitTeamVesting(c, w, s)
    \/ \E c \in Users : ClaimTeamTokens(c)
    \/ VestTick

DistSpec == Init /\ [][DistNext]_vars

\* tokens paid out of the market token account to the participants of S
RECURSIVE TokensReceived(_)
TokensReceived(S) ==
    IF S = {} THEN 0
    ELSE LET u == CHOOSE x \in S : TRUE
         IN  received[u].tokens + TokensReceived(S \ {u})

\* C29 as stated: in a market resolved to YesWins every claim_rewards on an
\* open position transfers floor(yes_shares * yes_voter_tokens_allocated /
\* total_yes_shares) tokens to the claimant, nothing when yes_shares is 0, and
\* the tokens claim_rewards has transferred to all participants together (the
\* tokens received less those claimed from the team schedule) never exceed
\* yes_voter_tokens_allocated.
C29_YesWinsProRataTokens ==
    /\ [](market.resolution = "YesWins" =>
              TokensReceived(Users) - vesting.team.claimed
                <= market.yes_voter_tokens_allocated)
    /\ [][\A u \in Users :
            (result'.who = u /\ result'.op = "claim_rewards"
               /\ market.resolution = "YesWins"
               /\ position[u].exists /\ ~position[u].claimed
               /\ ClaimRewards(u)) =>
                received'[u].tokens = received[u].tokens
                    + MulDiv(position[u].yes_shares,
                             market.yes_voter_tokens_allocated,
                             market.total_yes_shares)]_vars

\* C30 as stated: the team vesting schedule, once created, has total equal to
\* 3300 bps of the tokens the market received at resolution (those still in
\* the market token account plus those paid out of it), and the platform
\* allocation, the team total and the YES voters' allocation together never
\* exceed the tokens the market received.
C30_TeamTotalFromTokensReceived ==
    vesting.team.exists =>
        /\ vesting.team.total
             = MulDiv(market_tokens + TokensReceived(Users),
                      TEAM_TOKEN_SHARE_BPS, BPS_DIVISOR)
        /\ market.platform_tokens_allocated + vesting.team.total
             + market.yes_voter_tokens_allocated
             <= market_tokens + TokensReceived(Users)

\* C31: a buy_yes or buy_no of less than MIN_INVESTMENT_LAMPORTS (10_000_000)
\* is rejected and changes no account, in the Prediction and in the Funding
\* phase; on a market that is unresolved and has not expired, the checks that
\* come first in the handler, the error is InvestmentTooSmall.
C31_InvestmentTooSmall ==
    [][\A u \in Traders, a \in Amounts :
          (result'.who = u /\ result'.op \in {"buy_yes", "buy_no"}
             /\ a < 10000000
             /\ (BuyYes(u, a) \/ BuyNo(u, a))) =>
              /\ result'.err # "Ok"
              /\ UNCHANGED <<market, position, treasury, vault_lamports,
                             market_lamports, market_tokens, received, vesting>>
              /\ (market.resolution = "Unresolved" /\ now < market.expiry_time)
                    => result'.err = "InvestmentTooSmall"]_vars

\* a buy that was too small has been turned away in the Funding phase
C31_Witness ==
    /\ result.op \in {"buy_yes", "buy_no"}
    /\ result.err = "InvestmentTooSmall"
    /\ market.phase = "Funding"
    /\ market.resolution = "Unresolved"

\* C32 as stated: in a market resolved to Refund every claim_rewards on an
\* unclaimed position with total_invested > 0 succeeds and pays the refund,
\* and in a market resolved to NoWins every claim_rewards on an unclaimed
\* position with a non-zero NoWins payout succeeds and pays it, whatever buys
\* filled the pool and whoever claimed before.
C32_EntitledClaimsNeverFail ==
    [][\A u \in Users :
          (result'.who = u /\ result'.op = "claim_rewards"
             /\ position[u].exists /\ ~position[u].claimed
             /\ ClaimRewards(u)) =>
              /\ (market.resolution = "Refund"
                    /\ position[u].total_invested > 0) =>
                     /\ result'.err = "Ok"
                     /\ received'[u].sol
                          = received[u].sol + RefundAmount(position[u])
              /\ (market.resolution = "NoWins"
                    /\ position[u].no_shares > 0
                    /\ NoWinsPayout(market, position[u]) > 0) =>
                     /\ result'.err = "Ok"
                     /\ received'[u].sol
                          = received[u].sol
                              + NoWinsPayout(market, position[u])]_vars

\* YES and NO shares held by the positions of the participants of S
RECURSIVE SumYesShares(_)
SumYesShares(S) ==
    IF S = {} THEN 0
    ELSE LET u == CHOOSE x \in S : TRUE
         IN  position[u].yes_shares + SumYesShares(S \ {u})

RECURSIVE SumNoShares(_)
SumNoShares(S) ==
    IF S = {} THEN 0
    ELSE LET u == CHOOSE x \in S : TRUE
         IN  position[u].no_shares + SumNoShares(S \ {u})

\* C33: while the market is Unresolved, and in the state resolve_market leaves,
\* total_yes_shares is the sum of yes_shares over the positions and
\* total_no_shares the sum of no_shares; the totals never decrease, and only a
\* successful buy changes them (resolve_market, claim_rewards and
\* close_position never do).
C33_ShareTotals ==
    /\ [](market.resolution = "Unresolved" =>
              /\ market.total_yes_shares = SumYesShares(Users)
              /\ market.total_no_shares = SumNoShares(Users))
    /\ [][/\ market'.total_yes_shares >= market.total_yes_shares
          /\ market'.total_no_shares >= market.total_no_shares
          /\ (market.resolution = "Unresolved"
                /\ market'.resolution # "Unresolved") =>
                 /\ market'.total_yes_shares = SumYesShares(Users)
                 /\ market'.total_no_shares = SumNoShares(Users)
                 /\ position' = position
          /\ (result'.op \in {"resolve_market", "claim_rewards",
                              "close_position"}
                \/ ~(trades' = trades + 1)) =>
                 /\ market'.total_yes_shares = market.total_yes_shares
                 /\ market'.total_no_shares = market.total_no_shares]_vars

\* a position was closed after resolution: the totals still count its shares
C33_Witness ==
    /\ market.resolution # "Unresolved"
    /\ result.op \in {"claim_rewards", "close_position"} /\ result.err = "Ok"
    /\ market.total_yes_shares > 0 /\ market.total_no_shares > 0
    /\ SumYesShares(Users) + SumNoShares(Users)
         < market.total_yes_shares + market.total_no_shares

\* refunds due to the positions of S that hold shares of the given side
RECURSIVE SumRefunds(_, _)
SumRefunds(S, side) ==
    IF S = {} THEN 0
    ELSE LET u == CHOOSE x \in S : TRUE
             mine == CASE side = "yes" -> position[u].yes_shares > 0
                       [] side = "no" -> position[u].no_shares > 0
                       [] OTHER -> TRUE
         IN  (IF mine THEN RefundAmount(position[u]) ELSE 0)
               + SumRefunds(S \ {u}, side)

\* C34: before resolution the refund floor(total_invested * 9850 / 10000) of a
\* position never exceeds the net amounts its buys added to the pool: the
\* refunds of the YES positions together are at most the lamports their buys
\* put in the vault, those of the NO positions at most the lamports their buys
\* put in the market account, a position's first buy leaves a refund of at
\* most the net amount of that buy, and the refunds of all positions together
\* never exceed pool_balance.
C34_RefundWithinDeposits ==
    /\ [](market.resolution = "Unresolved" =>
              /\ SumRefunds(Users, "yes") <= vault_lamports - VaultRentExempt
              /\ SumRefunds(Users, "no") <= market_lamports - MarketRentExempt
              /\ SumRefunds(Users, "all") <= market.pool_balance)
    /\ [][\A u \in Traders :
            (trades' = trades + 1 /\ result'.who = u
               /\ ~position[u].exists) =>
                RefundAmount(position'[u])
                  <= market'.pool_balance - market.pool_balance]_vars

\* two capped and uncapped buys of one side have filled the pool
C34_Witness ==
    /\ market.resolution = "Unresolved"
    /\ market.pool_balance = market.target_pool
    /\ position["alice"].yes_shares > 0
    /\ position["bob"].yes_shares > 0
    /\ SumRefunds(Users, "yes") > 0

\* ------------------------------------------------------------- progress
\* some caller's resolve_market goes through, the external token purchase of
\* the YesWins branch included
ResolveSucceeds ==
    /\ market.resolution = "Unresolved"
    /\ \E c \in Users : ResolveMarket(c)
    /\ market'.resolution # "Unresolved"

\* the states in which ResolveSucceeds can be taken: some caller passes the
\* permission test of the unresolved market
ResolveEnabled ==
    /\ market.resolution = "Unresolved"
    /\ \E c \in Users : CanResolve(market, c, now)

\* LiveSpec: the life of a market up to its resolution.  The clock advances,
\* and a resolve_market that stays possible is eventually submitted and, on
\* the YesWins branch, its token purchase eventually goes through.
LiveAmounts == {MIN_INVESTMENT_LAMPORTS, 520000000}

LiveNext ==
    \/ \E u \in Traders, a \in LiveAmounts : BuyYes(u, a)
    \/ \E u \in Traders, a \in LiveAmounts : BuyNo(u, a)
    \/ \E c \in Users : ExtendMarket(c)
    \/ \E c \in Users : ResolveMarket(c)
    \/ Tick

\* weak fairness of ResolveSucceeds, with ResolveEnabled for its ENABLED
LiveSpec ==
    /\ Init /\ [][LiveNext]_vars
    /\ WF_vars(Tick)
    /\ ([]<>(~ResolveEnabled) \/ []<><<ResolveSucceeds>>_vars)

C36_CapReached ==
    [][\A u \in Traders, a \in Amounts :
          (result'.who = u /\ result'.op \in {"buy_yes", "buy_no"}
             /\ market.resolution = "Unresolved"
             /\ now < market.expiry_time
             /\ a >= MIN_INVESTMENT_LAMPORTS
             /\ market.phase = "Prediction"
             /\ market.pool_balance >= market.target_pool
             /\ (BuyYes(u, a) \/ BuyNo(u, a))) =>
              /\ result'.err = "CapReached"
              /\ UNCHANGED <<market, position, treasury, vault_lamports,
                             market_lamports, market_tokens, received,
                             vesting>>]_vars

\* the times the unlock is evaluated at: every step of the clock, and one
\* step beyond
VestTimes == {k * VestStep : k \in 0 .. (MaxVestTicks + 1)}

C38_CappedChargeWithinRequest ==
    [][(trades' = trades + 1 /\ market.phase = "Prediction") =>
        \A u \in Traders, a \in CapAmounts :
            (a - MulDiv(a, TRADE_FEE_BPS, BPS_DIVISOR)
                  > market.target_pool - market.pool_balance
               /\ result'.who = u
               /\ (BuyYes(u, a) \/ BuyNo(u, a)))
            => LET charged == (treasury'.total_fees - treasury.total_fees)
                                + (vault_lamports' - vault_lamports)
                                + (market_lamports' - market_lamports)
                   invested == position'[u].total_invested
                                 - position[u].total_invested
               IN  /\ charged <= a
                   /\ invested = charged
                   /\ charged < a => invested # a]_vars

\* a capped buy_no was charged less than the 520000000 lamports requested
C38_Witness ==
    /\ result.op = "buy_no" /\ result.err = "Ok"
    /\ market.pool_balance = market.target_pool
    /\ market.target_pool > MIN_POOL_LAMPORTS
    /\ position[result.who].no_shares > 0
    /\ position[result.who].total_invested > 500000000
    /\ position[result.who].total_invested < 520000000

\* ------------------------------------------- token allocation at resolution
\* total_tokens is the balance the market's token account shows after the
\* external purchase: AllocSpec lets resolve_market see balances that are and
\* are not multiples of BPS_DIVISOR, down to balances whose shares floor to 0
AllocTokenAmounts == {49, 19999, 600000, 600007}
AllocBuyAmounts == {MIN_INVESTMENT_LAMPORTS, 520000000}

\* resolve_market, with the token balance drawn from AllocTokenAmounts
ResolveMarketAlloc(caller) ==
    LET err == ResolveError(market, caller, now)
        resolution == ResolutionOutcome(market)
    IN  IF err # "Ok" THEN Reject("resolve_market", caller, err)
        ELSE CASE resolution = "YesWins" ->
                    \/ \E tokens \in AllocTokenAmounts, full_fill \in BOOLEAN :
                           ResolveYesWins(caller, tokens, full_fill)
                    \/ ResolveYesWinsCpiFails(caller)
               [] resolution = "NoWins" -> ResolveNoWins(caller)
               [] resolution = "Refund" -> ResolveRefund(caller)

AllocNext ==
    \/ \E u \in Traders, a \in AllocBuyAmounts : BuyYes(u, a)
    \/ \E u \in Traders, a \in AllocBuyAmounts : BuyNo(u, a)
    \/ \E c \in Users : ResolveMarketAlloc(c)
    \/ \E u \in Users : ClaimRewards(u)
    \/ Tick

AllocSpec == Init /\ [][AllocNext]_vars

\* C39: the resolve_market call that resolves the market to YesWins, with T
\* the tokens the market's token account then holds, stores
\* platform_tokens_allocated = floor(T * 200 / 10000) and
\* yes_voter_tokens_allocated = T - platform - floor(T * 3300 / 10000), so
\* that what is left for the team is floor(T * 3300 / 10000) and the three
\* parts add up to T; until then token_mint is unset and both allocations
\* are 0, and once the market is resolved no step changes any of the three.
C39_TokenAllocation ==
    /\ [][(market.resolution = "Unresolved" /\ market'.resolution = "YesWins") =>
            LET T == market_tokens'
                platform == (T * PLATFORM_TOKEN_SHARE_BPS) \div BPS_DIVISOR
                team == (T * TEAM_TOKEN_SHARE_BPS) \div BPS_DIVISOR
            IN  /\ market'.token_mint = "Some"
                /\ market'.platform_tokens_allocated = platform
                /\ market'.yes_voter_tokens_allocated = T - platform - team
                /\ T - market'.platform_tokens_allocated
                     - market'.yes_voter_tokens_allocated = team
                /\ market'.platform_tokens_allocated + team
                     + market'.yes_voter_tokens_allocated = T]_vars
    /\ [](market.resolution = "Unresolved" =>
            /\ market.token_mint = "None"
            /\ market.platform_tokens_allocated = 0
            /\ market.yes_voter_tokens_allocated = 0)
    /\ [][(market.resolution # "Unresolved" \/ market'.resolution # "YesWins") =>
            /\ market'.token_mint = market.token_mint
            /\ market'.platform_tokens_allocated = market.platform_tokens_allocated
            /\ market'.yes_voter_tokens_allocated
                  = market.yes_voter_tokens_allocated]_vars

\* a YES holder has claimed tokens of a market whose token balance, 600007,
\* is no multiple of BPS_DIVISOR: the platform got 12000 and the team 198002
C39_Witness ==
    /\ market.resolution = "YesWins"
    /\ market_tokens < 600007
    /\ market.platform_tokens_allocated = 12000
    /\ market.yes_voter_tokens_allocated = 390005
    /\ result.op = "claim_rewards" /\ result.err = "Ok"
    /\ received[result.who].tokens > 0

\* ------------------------------------------------------------ close_market
\* CLAIM_PERIOD and DUST_THRESHOLD of the handler
CLAIM_PERIOD == 2592000
DUST_THRESHOLD == 10000000

\* the market account is live while it holds lamports: close_market moves
\* every lamport out of it and no instruction can load it afterwards
MarketOpen == market_lamports > 0

\* the Accounts constraints of CloseMarket, then the handler's two checks
CloseMarketError(m, caller, t) ==
    IF m.founder # caller THEN "Unauthorized"
    ELSE IF m.resolution = "Unresolved" THEN "InvalidResolutionState"
    ELSE IF ~(t > m.expiry_time + CLAIM_PERIOD) THEN "ClaimPeriodNotOver"
    ELSE IF ~(m.pool_balance <= DUST_THRESHOLD) THEN "PoolNotEmpty"
    ELSE "Ok"

\* close_market: the dust, pool_balance lamports, goes from the market account
\* to the founder, and `close = founder` sends the rest after it.  The dust
\* subtraction is unchecked: when pool_balance exceeds the lamports of the
\* market account it panics or wraps, and the transaction fails either way.
CloseMarket(caller) ==
    LET err == CloseMarketError(market, caller, now)
    IN  IF ~MarketOpen
        THEN Reject("close_market", caller, "AccountNotInitialized")
        ELSE IF err # "Ok" THEN Reject("close_market", caller, err)
        ELSE IF market.pool_balance > market_lamports
        THEN \E e \in {"ProgramFailedToComplete", "UnbalancedInstruction"} :
                 Reject("close_market", caller, e)
        ELSE /\ market_lamports' = 0
             /\ received' = [received EXCEPT
                    ![caller] = [sol |-> @.sol + market_lamports,
                                 tokens |-> @.tokens]]
             /\ result' = [op |-> "close_market", who |-> caller, err |-> "Ok"]
             /\ UNCHANGED <<vesting, market, position, treasury, vault_lamports,
                            market_tokens, now, trades>>

\* claim_rewards on a market account that was closed: the account fails to load
ClaimAfterClose(u) ==
    /\ ~MarketOpen
    /\ Reject("claim_rewards", u, "AccountNotInitialized")

\* the cluster clock after expiry: to the claim deadline, then one second past
ClaimPeriodTick ==
    /\ now >= market.expiry_time
    /\ now <= market.expiry_time + CLAIM_PERIOD
    /\ now' = IF now < market.expiry_time + CLAIM_PERIOD
              THEN market.expiry_time + CLAIM_PERIOD
              ELSE now + 1
    /\ UNCHANGED <<vesting, market, position, treasury, vault_lamports,
                   market_lamports, market_tokens, received, trades, result>>

CloseBuyAmounts == {MIN_INVESTMENT_LAMPORTS, 520000000}

CloseNext ==
    \/ MarketOpen /\ \E u \in Traders, a \in CloseBuyAmounts : BuyYes(u, a)
    \/ MarketOpen /\ \E u \in Traders, a \in CloseBuyAmounts : BuyNo(u, a)
    \/ MarketOpen /\ \E c \in Users : ResolveMarket(c)
    \/ MarketOpen /\ \E u \in Users : ClaimRewards(u)
    \/ \E u \in Users : ClaimAfterClose(u)
    \/ \E c \in Users : CloseMarket(c)
    \/ Tick
    \/ ClaimPeriodTick

CloseSpec == Init /\ [][CloseNext]_vars

\* what claim_rewards owes a position that has not claimed
UnclaimedEntitlement(m, pos) ==
    /\ pos.exists /\ ~pos.claimed
    /\ CASE m.resolution = "YesWins" ->
              pos.yes_shares > 0 /\ YesWinsTokens(m, pos) > 0
         [] m.resolution = "NoWins" ->
              pos.no_shares > 0 /\ NoWinsPayout(m, pos) > 0
         [] m.resolution = "Refund" ->
              pos.total_invested > 0 /\ RefundAmount(pos) > 0
         [] OTHER -> FALSE

\* C40: close_market succeeds only when the market is resolved, the clock is
\* past expiry_time plus the 30-day claim period, and no participant has an
\* unclaimed entitlement (NoWins payout, refund or YesWins token share).
C40_ClosedOnlyAfterClaimOut ==
    [][(result'.op = "close_market" /\ result'.err = "Ok"
          /\ MarketOpen /\ market_lamports' = 0) =>
        /\ market.resolution # "Unresolved"
        /\ now > market.expiry_time + CLAIM_PERIOD
        /\ \A u \in Users : ~UnclaimedEntitlement(market, position[u])]_vars
====
